---- MODULE Spec2Model ----
(***************************************************************************)
(* TL1 command protocol engine of the FlexILS client: command registry,    *)
(* serializer (to_string), response parser (from_raw_text) and the client  *)
(* facade (FlexILSClient) with its DENY classification.                    *)
(*                                                                         *)
(* Text is modelled by TLA+ strings, one character per element, with the   *)
(* Python string methods of the source written out as operators.  Python   *)
(* indices are 0-based: Find and RFind return the Python index, -1 when    *)
(* the substring is absent.                                                *)
(***************************************************************************)
EXTENDS Integers, Sequences, FiniteSets, Bags, TLC

(***************************************************************************)
(* Python str methods used by the source.                                  *)
(***************************************************************************)
At(s, i) == SubSeq(s, i, i)

\* s[k:] for a 0-based k
Slice(s, k) == SubSeq(s, k + 1, Len(s))

\* s.startswith(t) / s.endswith(t)
StartsWith(s, t) == Len(t) <= Len(s) /\ SubSeq(s, 1, Len(t)) = t
EndsWith(s, t) == Len(t) <= Len(s) /\ SubSeq(s, Len(s) - Len(t) + 1, Len(s)) = t

\* the least and the greatest element of a non-empty set of integers
Min(S) == CHOOSE k \in S : \A j \in S : k <= j
Max(S) == CHOOSE k \in S : \A j \in S : k >= j

\* the 0-based positions at which t occurs in s
Occurrences(s, t) ==
    {k \in 0..(Len(s) - Len(t)) : SubSeq(s, k + 1, k + Len(t)) = t}

\* s.find(t)
Find(s, t) ==
    LET occ == Occurrences(s, t)
    IN  IF occ = {} THEN -1 ELSE Min(occ)

\* s.rfind(t)
RFind(s, t) ==
    LET occ == Occurrences(s, t)
    IN  IF occ = {} THEN -1 ELSE Max(occ)

\* t in s
Contains(s, t) == Find(s, t) # -1

\* s.split(sep) for a non-empty separator, and s.split(sep, 1)
RECURSIVE Split(_, _)
Split(s, sep) ==
    LET k == Find(s, sep)
    IN  IF k = -1 THEN <<s>>
        ELSE <<SubSeq(s, 1, k)>> \o Split(Slice(s, k + Len(sep)), sep)

SplitOnce(s, sep) ==
    LET k == Find(s, sep)
    IN  IF k = -1 THEN <<s>>
        ELSE <<SubSeq(s, 1, k), Slice(s, k + Len(sep))>>

\* sep.join(parts)
RECURSIVE Join(_, _)
Join(parts, sep) ==
    IF parts = <<>> THEN ""
    ELSE IF Len(parts) = 1 THEN parts[1]
    ELSE parts[1] \o sep \o Join(Tail(parts), sep)

\* s.replace(old, new)
RECURSIVE Replace(_, _, _)
Replace(s, old, new) ==
    LET k == Find(s, old)
    IN  IF k = -1 THEN s
        ELSE SubSeq(s, 1, k) \o new \o Replace(Slice(s, k + Len(old)), old, new)

\* the 1-based positions of s whose character is not in chars
Kept(s, chars) == {i \in 1..Len(s) : At(s, i) \notin chars}

\* s.lstrip(chars), s.rstrip(chars), s.strip(chars)
LStrip(s, chars) ==
    IF Kept(s, chars) = {} THEN "" ELSE SubSeq(s, Min(Kept(s, chars)), Len(s))

RStrip(s, chars) ==
    IF Kept(s, chars) = {} THEN "" ELSE SubSeq(s, 1, Max(Kept(s, chars)))

Strip(s, chars) ==
    IF Kept(s, chars) = {} THEN ""
    ELSE SubSeq(s, Min(Kept(s, chars)), Max(Kept(s, chars)))

Whitespace == {" ", "\n", "\t", "\r"}

\* s.strip()
StripWs(s) == Strip(s, Whitespace)

UpperCase == "ABCDEFGHIJKLMNOPQRSTUVWXYZ"
LowerCase == "abcdefghijklmnopqrstuvwxyz"
Digits == "0123456789"

LowerChar(c) ==
    LET k == Find(UpperCase, c) IN IF k = -1 THEN c ELSE At(LowerCase, k + 1)

\* s.lower(), character by character (by halves, to bound the nesting)
RECURSIVE Lower(_)
Lower(s) ==
    IF Len(s) = 0 THEN ""
    ELSE IF Len(s) = 1 THEN LowerChar(s)
    ELSE Lower(SubSeq(s, 1, Len(s) \div 2)) \o Lower(SubSeq(s, Len(s) \div 2 + 1, Len(s)))

\* s.splitlines(), for the line break "\n"
RECURSIVE SplitLines(_)
SplitLines(s) ==
    IF s = "" THEN <<>>
    ELSE LET k == Find(s, "\n")
         IN  IF k = -1 THEN <<s>>
             ELSE <<SubSeq(s, 1, k)>> \o SplitLines(Slice(s, k + 1))

\* the regular expression class \w
IsWordChar(c) ==
    Contains(UpperCase, c) \/ Contains(LowerCase, c) \/ Contains(Digits, c) \/ c = "_"

\* the longest prefix of s made of \w characters
WordPrefix(s) ==
    LET stops == {i \in 1..Len(s) : ~IsWordChar(At(s, i))}
    IN  IF stops = {} THEN s ELSE SubSeq(s, 1, Min(stops) - 1)

\* re.match(r"\s*(\w+)", s): group(1), or "" when there is no match (None)
MatchStatusWord(s) == WordPrefix(LStrip(s, Whitespace))

\* str(n) for a small natural number
RECURSIVE IntToStr(_)
IntToStr(n) ==
    IF n < 10 THEN At(Digits, n + 1)
    ELSE IntToStr(n \div 10) \o At(Digits, (n % 10) + 1)

(***************************************************************************)
(* Field values: a scalar, a flat list, a list of lists, or None.          *)
(***************************************************************************)
None == [kind |-> "none"]
Str(s) == [kind |-> "str", v |-> s]
List(xs) == [kind |-> "list", v |-> xs]
Lol(xss) == [kind |-> "lol", v |-> xss]

\* getattr(self, key, None) on a command instance
Getattr(attrs, key) == IF key \in DOMAIN attrs THEN attrs[key] ELSE None

RECURSIVE JoinInner(_)
JoinInner(xss) ==
    IF xss = <<>> THEN <<>> ELSE <<Join(xss[1], "&")>> \o JoinInner(Tail(xss))

\* the text of a present value of a named parameter (base.py 204-212)
ValueText(value) ==
    CASE value.kind = "lol" -> Join(JoinInner(value.v), "&-")
      [] value.kind = "list" -> Join(value.v, "&")
      [] OTHER -> value.v

\* a token emitter that keeps a column for an absent named parameter
EmitPart_NamedPlaceholder(rawpart, attrs) ==
    LET is_optional == StartsWith(rawpart, "[") /\ EndsWith(rawpart, "]")
        part == Strip(rawpart, {"[", "]", "<", ">"})
    IN  IF part = "" THEN <<>>
        ELSE IF Contains(part, "=")
        THEN LET name == Split(part, "=")[1]
                 key == Replace(Lower(name), "-", "_")
                 value == Getattr(attrs, key)
             IN  IF value # None THEN <<name \o "=" \o ValueText(value)>> ELSE <<"">>
        ELSE LET name == Replace(Replace(Lower(part), "-", "_"), "|", "_")
                 value == Getattr(attrs, name)
             IN  IF value # None THEN <<ValueText(value)>>
                 ELSE IF ~is_optional THEN <<"">>
                 ELSE <<>>

\* a token emitter that omits an absent required positional parameter
EmitPart_NoPlaceholder(rawpart, attrs) ==
    LET part == Strip(rawpart, {"[", "]", "<", ">"})
    IN  IF part = "" THEN <<>>
        ELSE IF Contains(part, "=")
        THEN LET name == Split(part, "=")[1]
                 key == Replace(Lower(name), "-", "_")
                 value == Getattr(attrs, key)
             IN  IF value # None THEN <<name \o "=" \o ValueText(value)>> ELSE <<>>
        ELSE LET name == Replace(Replace(Lower(part), "-", "_"), "|", "_")
                 value == Getattr(attrs, name)
             IN  IF value # None THEN <<ValueText(value)>> ELSE <<>>

\* one token of a template section: the parameters it appends (base.py 192-224)
EmitPart(rawpart, attrs) ==
    LET is_optional == StartsWith(rawpart, "[") /\ EndsWith(rawpart, "]")
        part == Strip(rawpart, {"[", "]", "<", ">"})
    IN  IF part = "" THEN <<>>
        ELSE IF Contains(part, "=")
        THEN LET name == Split(part, "=")[1]
                 key == Replace(Lower(name), "-", "_")
                 value == Getattr(attrs, key)
             IN  IF value # None THEN <<name \o "=" \o ValueText(value)>> ELSE <<>>
        ELSE LET name == Replace(Replace(Lower(part), "-", "_"), "|", "_")
                 value == Getattr(attrs, name)
             IN  IF value # None THEN <<ValueText(value)>>
                 ELSE IF ~is_optional THEN <<"">>
                 ELSE <<>>

RECURSIVE EmitParts(_, _)
EmitParts(parts, attrs) ==
    IF parts = <<>> THEN <<>>
    ELSE EmitPart(parts[1], attrs) \o EmitParts(Tail(parts), attrs)

\* one parameter section of the template (base.py 181-230)
EmitSection(rawsection, attrs) ==
    IF StripWs(rawsection) = "" THEN ""
    ELSE LET section == Replace(Replace(rawsection, ",]", "],"), "[,", ",[")
             params == EmitParts(Split(section, ","), attrs)
         IN  IF \A k \in 1..Len(params) : params[k] = "" THEN ""
             ELSE Join(params, ",")

RECURSIVE EmitSections(_, _)
EmitSections(sections, attrs) ==
    IF sections = <<>> THEN <<>>
    ELSE <<EmitSection(sections[1], attrs)>> \o EmitSections(Tail(sections), attrs)

\* a serializer that leaves out the sections that are blank in the template
to_string_SkipsBlankSections(help_text, verb, modifier, attrs) ==
    LET sections == Split(help_text, ":")
        kept == SelectSeq(Tail(sections), LAMBDA section : StripWs(section) # "")
        result == <<verb \o "-" \o modifier>> \o EmitSections(kept, attrs)
    IN  Join(result, ":") \o ";"

\* TL1BaseCommand.to_string
to_string(help_text, verb, modifier, attrs) ==
    LET sections == Split(help_text, ":")
        result == <<verb \o "-" \o modifier>> \o EmitSections(Tail(sections), attrs)
    IN  Join(result, ":") \o ";"

(***************************************************************************)
(* Response parser.                                                        *)
(***************************************************************************)
\* the 3-character windows of the quote-aware scanner, r"=\"" etc. (base.py 93-95)
QuoteOpen == {"=\\\"", ":\\\""}
QuoteClose == {"\\\",", "\\\":"}

\* split_preserving_quotes.  The loop visits the 0-based positions i in
\* order; at i it first updates in_quotes from the window text[i:i+3] (only
\* when i + 2 < len(text)) and then either cuts at text[i] or appends it.
\* Marks are the positions whose window changes the flag, so the flag in
\* force at i is the one set at the last mark at or before i.
Window(text, i) == SubSeq(text, i + 1, i + 3)

Marks(text) ==
    {i \in 0..(Len(text) - 3) : Window(text, i) \in QuoteOpen \cup QuoteClose}

InQuotesAt(text, i) ==
    LET before == {p \in Marks(text) : p <= i}
    IN  before # {} /\ Window(text, Max(before)) \in QuoteOpen

\* the positions at which the loop closes a part
Cuts(text, delimiter) ==
    {i \in 0..(Len(text) - 1) : At(text, i + 1) = delimiter /\ ~InQuotesAt(text, i)}

\* the parts of text from 0-based position start on, given the cuts left
RECURSIVE PartsFrom(_, _, _)
PartsFrom(text, start, cuts) ==
    IF cuts = {} THEN <<Slice(text, start)>>
    ELSE <<SubSeq(text, start + 1, Min(cuts))>>
         \o PartsFrom(text, Min(cuts) + 1, cuts \ {Min(cuts)})

split_preserving_quotes(text, delimiter) ==
    PartsFrom(text, 0, Cuts(text, delimiter))

\* a decoding that knows only the flat list
DecodeValue_FlatOnly(raw) ==
    LET value == IF StartsWith(raw, "\"") /\ EndsWith(raw, "\"")
                 THEN SubSeq(raw, 2, Len(raw) - 1) ELSE raw
    IN  IF Contains(value, "&") THEN List(Split(value, "&")) ELSE Str(value)

\* decoding of a named field's value (base.py 123-128)
DecodeValue(raw) ==
    LET value == IF StartsWith(raw, "\"") /\ EndsWith(raw, "\"")
                 THEN SubSeq(raw, 2, Len(raw) - 1) ELSE raw
    IN  IF Contains(value, "&-")
        THEN Lol([k \in 1..Len(Split(value, "&-")) |-> Split(Split(value, "&-")[k], "&")])
        ELSE IF Contains(value, "&") THEN List(Split(value, "&"))
        ELSE Str(value)

\* dict assignment record[key] = value
SetItem(record, key, value) == (key :> value) @@ record

\* the fields of one section, from comma position j on (base.py 119-131)
RECURSIVE ParseParts(_, _, _, _)
ParseParts(parts, i, j, record) ==
    IF j >= Len(parts) THEN record
    ELSE LET part == parts[j + 1]
         IN  IF Contains(part, "=")
             THEN LET kv == SplitOnce(part, "=")
                  IN  ParseParts(parts, i, j + 1,
                          SetItem(record, StripWs(kv[1]), DecodeValue(StripWs(kv[2]))))
             ELSE ParseParts(parts, i, j + 1,
                      SetItem(record,
                              "positional_param_" \o IntToStr(i) \o "_" \o IntToStr(j),
                              Str(StripWs(part))))

\* a parser that numbers only the sections that are not blank
RECURSIVE ParseSections_DenseIndex(_, _, _)
ParseSections_DenseIndex(sections, i, record) ==
    IF i >= Len(sections) THEN record
    ELSE IF StripWs(sections[i + 1]) = ""
    THEN ParseSections_DenseIndex(sections, i + 1, record)
    ELSE ParseSections_DenseIndex(sections, i + 1,
             ParseParts(split_preserving_quotes(sections[i + 1], ","),
                        i - Cardinality({k \in 1..i : StripWs(sections[k]) = ""}), 0, record))

\* the sections of one record line, from section i on (base.py 113-131)
RECURSIVE ParseSections(_, _, _)
ParseSections(sections, i, record) ==
    IF i >= Len(sections) THEN record
    ELSE IF StripWs(sections[i + 1]) = "" THEN ParseSections(sections, i + 1, record)
    ELSE ParseSections(sections, i + 1,
             ParseParts(split_preserving_quotes(sections[i + 1], ","), i, 0, record))

\* the records of the lines after the first one (base.py 106-133)
RECURSIVE ParseLines(_)
ParseLines(lines) ==
    IF lines = <<>> THEN <<>>
    ELSE LET line == Strip(lines[1], {" ", ";"})
         IN  IF line = "" \/ At(line, 1) # "\""
             THEN ParseLines(Tail(lines))
             ELSE <<ParseSections(split_preserving_quotes(Strip(line, {"\""}), ":"), 0, <<>>)>>
                  \o ParseLines(Tail(lines))


(***************************************************************************)
(* The shipped command classes (commands/*.py) and their response classes. *)
(* fields maps each pydantic field declared on the class to its default;   *)
(* Required marks a field declared without one.  A response class is its   *)
(* rename hook: the triples <<new key, popped key, pop has a default>> in  *)
(* the order of the assignments.                                           *)
(***************************************************************************)
Required == [kind |-> "required"]

EqptResponse ==
    [name |-> "EqptResponse",
     hooks |-> <<<<"AID", "positional_param_0_0", FALSE>>, <<"TYPE", "positional_param_1_0", FALSE>>, <<"OPERSTATE", "positional_param_3_0", FALSE>>>>]

RetrieveEqpt ==
    [name |-> "RetrieveEqpt",
     verb |-> "RTRV",
     modifier |-> "EQPT",
     help_text |->
        "RTRV-EQPT:[<TID>]:[<AID>]:<CTAG>::[<ctype>]:[<PROVSTATUS=PROV|UNPROV>][,<SAUPGPENDING=TRUE>]:",
     response_class |-> "EqptResponse",
     actual_verb |-> "",
     own_to_string |-> FALSE,
     fields |->
        ("ctype" :> None @@
         "provstatus" :> None @@
         "saupgpending" :> None)]

IntoAdminMaintenance ==
    [name |-> "IntoAdminMaintenance",
     verb |-> "PUT",
     modifier |-> "MAINTENANCE",
     help_text |->
        "RMV-{EQPT|OCH|DTPCTP|TRIB|OC768|OC192|OC48|OC12|OC3|STM256|STM64|STM16|STM4|STM1|10GBE|SNC|1GBE|10GCC|4GCC|HD1485CC|HD1483CC|SD270CC|DVB270CC|DV6000CC|ESCON200CC|IB25GCC|IB10GCC|25GCC|1G0625CC|1G25CC|2G125CC|NCT|SUBCLIENT|VCG|DCH|OTU1|OTU1E|OTU2|OTU3|OTU4|OTUC1I10|OTUC1I|OTUC2I|OTUC3I50|OTUC1I7G5|OTUC1I15|OTUC2I22G5|OTUC2I30|OTUC2I37G5|OTUC3I45|OTUC3I52G5|OTUC3I|OTUC4I67G5|OTUC4I75|OTUC24I|OTUC18I|OTUC12I|OTUC10I|OTUC20I|OTUC8I150|OTUC15I|OTUC5I|OTUC2I|OTUC1I|OTUC4I|OTUC9I|OTUC6I|OTUC8I|OTUC1I10|OTUC1I5|OTUC5I90|OTUC22I|OTUC16I|OTUC14I|OTUC17I330|OTUC14I270|OTUC11I210|OTUC11I|OTUC7I|OTUC9I165|OTUC7I135|OTUC6I105|OTUC6I110|OTUC4I70|OTUC3I55|OTUC2I35|OTUC2I25|OTUC5I82G5|OTU2E|OTU3E1|OTU3E2|ODU0|ODU1|ODU2|ODU3|ODU4|ODU1E|ODU2E|ODU3E1|ODU3E2|ODU1T|ODU1ET|ODU2T|ODU2ET|ODU2IT|ODU3IT|ODUFLEXIT|ODU3IPT|ODU4IT|OTU3I|OTU3IP|OTU4I|ODU2I|ODU3I|ODUFLEXI|ODUFLEX|ODU3IP|ODU4I|ODUC1I10|ODUC1I|ODUC2I|ODUC3I50|ODUC1I7G5|ODUC1I15|ODUC2I22G5|ODUC2I30|ODUC2I37G5|ODUC3I45|ODUC3I52G5|ODUC3I|ODUC4I67G5|ODUC4I75|ODUC24I|ODUC18I|ODUC12I|ODUC10I|ODUC20I|ODUC8I150|ODUC15I|ODUC5I|ODUC4I|ODUC9I|ODUC6I|ODUC8I|ODUC1I5|ODUC5I90|ODUC22I|ODUC16I|ODUC14I|ODUC17I330|ODUC14I270|ODUC11I210|ODUC11I|ODUC7I|ODUC9I165|ODUC7I135|ODUC6I105|ODUC6I110|ODUC4I70|ODUC3I55|ODUC2I35|ODUC2I25|ODUC5I82G5|1GFC|2GFC|4GFC|8GFC|10GFC|40GBE|100GBE|400GBE|10G3CC|OCHCTP|OCHPTP|11G1CC|GFP|GTP|SCH|PWRFEED|IDLERCTP|IDLERPTP|OSNC|CARRIERCTP|DIGITALWRAPPER|FLEXCARRIER|BANDPTP|NTP|ETHIF|AC|NWIF|VSI|PW|OPSMPTP|SCG|OCG|OLDPSCH|IKE|ASEPTP|BAND|OTS|EXPNPTP|NCC|OSC}:[<TID>]:<AID>:<CTAG>::[<mode>],[<state>]",
     response_class |-> "TL1BaseResponse",
     actual_verb |-> "RMV",
     own_to_string |-> TRUE,
     fields |->
        ("aidtype" :> None @@
         "aid" :> Required @@
         "mode" :> None @@
         "state" :> None)]

OutofAdminMaintenance ==
    [name |-> "OutofAdminMaintenance",
     verb |-> "RST",
     modifier |-> "MAINTENANCE",
     help_text |->
        "RST-{EQPT|OCH|DTPCTP|TRIB|OC768|OC192|OC48|OC12|OC3|STM256|STM64|STM16|STM4|STM1|10GBE|SNC|1GBE|10GCC|4GCC|HD1485CC|HD1483CC|SD270CC|DVB270CC|DV6000CC|ESCON200CC|IB25GCC|IB10GCC|25GCC|1G0625CC|1G25CC|2G125CC|NCT|SUBCLIENT|VCG|DCH|OTU1|OTU1E|OTU2|OTU3|OTU4|OTUC1I10|OTUC1I|OTUC2I|OTUC3I50|OTUC1I7G5|OTUC1I15|OTUC2I22G5|OTUC2I30|OTUC2I37G5|OTUC3I45|OTUC3I52G5|OTUC3I|OTUC4I67G5|OTUC4I75|OTUC24I|OTUC18I|OTUC12I|OTUC10I|OTUC20I|OTUC8I150|OTUC15I|OTUC5I|OTUC2I|OTUC1I|OTUC4I|OTUC9I|OTUC6I|OTUC8I|OTUC1I10|OTUC1I5|OTUC5I90|OTUC22I|OTUC16I|OTUC14I|OTUC17I330|OTUC14I270|OTUC11I210|OTUC11I|OTUC7I|OTUC9I165|OTUC7I135|OTUC6I105|OTUC6I110|OTUC4I70|OTUC3I55|OTUC2I35|OTUC2I25|OTUC5I82G5|OTU2E|OTU3E1|OTU3E2|ODU0|ODU1|ODU2|ODU3|ODU4|ODU1E|ODU2E|ODU3E1|ODU3E2|ODU1T|ODU1ET|ODU2T|ODU2ET|ODU2IT|ODU3IPT|ODU3IT|ODUFLEXIT|ODU4IT|OTU3I|OTU3IP|OTU4I|ODU2I|ODU3I|ODUFLEXI|ODUFLEX|ODU3IP|ODU4I|ODUC1I10|ODUC1I|ODUC2I|ODUC3I50|ODUC1I7G5|ODUC1I15|ODUC2I22G5|ODUC2I30|ODUC2I37G5|ODUC3I45|ODUC3I52G5|ODUC3I|ODUC4I67G5|ODUC4I75|ODUC24I|ODUC18I|ODUC12I|ODUC10I|ODUC20I|ODUC8I150|ODUC15I|ODUC5I|ODUC4I|ODUC9I|ODUC6I|ODUC8I|ODUC1I5|ODUC5I90|ODUC22I|ODUC16I|ODUC14I|ODUC17I330|ODUC14I270|ODUC11I210|ODUC11I|ODUC7I|ODUC9I165|ODUC7I135|ODUC6I105|ODUC6I110|ODUC4I70|ODUC3I55|ODUC2I35|ODUC2I25|ODUC5I82G5|1GFC|2GFC|4GFC|8GFC|10GFC|40GBE|100GBE|400GBE|10G3CC|OCHCTP|OCHPTP|11G1CC|GFP|GTP|SCH|PWRFEED|IDLERCTP|IDLERPTP|OSNC|CARRIERCTP|DIGITALWRAPPER|FLEXCARRIER|BANDPTP|NTP|ETHIF|AC|NWIF|VSI|PW|OPSMPTP|SCG|OCG|OLDPSCH|IKE|ASEPTP|BAND|OTS|EXPNPTP|NCC|OSC}:[<TID>]:<AID>:<CTAG>::[<mode>]::",
     response_class |-> "TL1BaseResponse",
     actual_verb |-> "",
     own_to_string |-> TRUE,
     fields |->
        ("aidtype" :> None @@
         "aid" :> Required @@
         "mode" :> None)]

OcrsResponse ==
    [name |-> "OcrsResponse",
     hooks |-> <<<<"FROMAID", "positional_param_0_0", FALSE>>, <<"TOAID", "positional_param_0_1", FALSE>>, <<"CrossConnectType", "positional_param_1_0", FALSE>>, <<"OPERSTATE", "positional_param_3_0", FALSE>>>>]

RetrieveOcrs ==
    [name |-> "RetrieveOcrs",
     verb |-> "RTRV",
     modifier |-> "OCRS",
     help_text |->
        "RTRV-OCRS:[<TID>]:[<FROMAID>,<TOAID>]:<CTAG>:::[<CHANPLANTYPE=CUSTOM-CHPLAN-1|FLEX-CHPLAN-1|FLEX-CHPLAN-2|FLEX-CHPLAN-3|FLEX-CHPLAN-4|OCG-CHPLAN-1|OCG-CHPLAN-2|DEFAULT-CHPLAN-AOFX>][,<SIGTYPE=SIGNALED|MANUAL>][,<OELAID=oelaid>]:",
     response_class |-> "OcrsResponse",
     actual_verb |-> "",
     own_to_string |-> FALSE,
     fields |->
        ("fromaid" :> None @@
         "toaid" :> None @@
         "chanplantype" :> None @@
         "sigtype" :> None @@
         "oelaid" :> None)]

EnterOcrs ==
    [name |-> "EnterOcrs",
     verb |-> "ENT",
     modifier |-> "OCRS",
     help_text |->
        "ENT-OCRS:[<TID>]:<FROMAID>,<TOAID>:<CTAG>:::[<LABEL=label>,][<SUPCHNUM=supchnum>,][<CKTIDSUFFIX=cktidsuffix>,]<FREQSLOTPLANTYPE=freqslotplantype>[,<OELAID=oelaid>][,<SCHOFFSET=schoffset>][,<FREQSLOTLIST=freqslotlist>][,<POSSIBLEFREQSLOTLIST=possiblefreqslotlist>][,<LMSCH=lmsch>][,<PASSBANDLIST=passbandlist>][,<CARRIERLIST=carrierlist>][,<POSSIBLEPASSBANDLIST=possiblepassbandlist>][,<BAUDRATE=NA|16G|17G|22G|33G>][,<RXSCHOFFSET=rxschoffset>][,<AUTORETUNELMSCH=ENABLED|DISABLED>][,<MODULATIONCAT=NA|16G|17G-DAC|17G-DAC-12GOFFSET|22G-DAC|22G-DAC-12GOFFSET|33G-DAC|33G-DAC-12GOFFSET>][,<PROFSCHNUM=profschnum>][,<SCHPROFID=schprofid>][,<SCHTHPROFLIST=schthproflist>][,<PGAID=pgaid>][,<INTRACARRSPECSHAPING=ENABLED|DISABLED>]",
     response_class |-> "TL1BaseResponse",
     actual_verb |-> "",
     own_to_string |-> FALSE,
     fields |->
        ("fromaid" :> Required @@
         "toaid" :> Required @@
         "label" :> None @@
         "supchnum" :> None @@
         "cktidsuffix" :> None @@
         "freqslotplantype" :> Required @@
         "oelaid" :> None @@
         "schoffset" :> None @@
         "freqslotlist" :> None @@
         "possiblefreqslotlist" :> None @@
         "lmsch" :> None @@
         "passbandlist" :> None @@
         "carrierlist" :> None @@
         "possiblepassbandlist" :> None @@
         "baudrate" :> None @@
         "rxschoffset" :> None @@
         "autoretunelmsch" :> None @@
         "modulationcat" :> None @@
         "profschnum" :> None @@
         "schprofid" :> None @@
         "schthproflist" :> None @@
         "pgaid" :> None @@
         "intracarrspecshaping" :> None)]

EditOcrs ==
    [name |-> "EditOcrs",
     verb |-> "ED",
     modifier |-> "OCRS",
     help_text |->
        "ED-OCRS:[<TID>]:<FROMAID>,<TOAID>:<CTAG>:::[<LABEL=label>][,<CKTIDSUFFIX=cktidsuffix>][,<FREQSLOTLIST=freqslotlist>][,<POSSIBLEFREQSLOTLIST=possiblefreqslotlist>][,<LMSCH=lmsch>][,<PASSBANDLIST=passbandlist>][,<CARRIERLIST=carrierlist>][,<POSSIBLEPASSBANDLIST=possiblepassbandlist>][,<ACTIVEPASSBANDLIST=activepassbandlist>][,<RXSCHOFFSET=rxschoffset>][,<AUTORETUNELMSCH=ENABLED|DISABLED>][,<SCHTHPROFLIST=schthproflist>][,<INTRACARRSPECSHAPING=ENABLED|DISABLED>]",
     response_class |-> "TL1BaseResponse",
     actual_verb |-> "",
     own_to_string |-> FALSE,
     fields |->
        ("fromaid" :> Required @@
         "toaid" :> Required @@
         "label" :> None @@
         "cktidsuffix" :> None @@
         "freqslotlist" :> None @@
         "possiblefreqslotlist" :> None @@
         "lmsch" :> None @@
         "passbandlist" :> None @@
         "carrierlist" :> None @@
         "possiblepassbandlist" :> None @@
         "activepassbandlist" :> None @@
         "rxschoffset" :> None @@
         "autoretunelmsch" :> None @@
         "schthproflist" :> None @@
         "intracarrspecshaping" :> None)]

DeleteOcrs ==
    [name |-> "DeleteOcrs",
     verb |-> "DLT",
     modifier |-> "OCRS",
     help_text |->
        "DLT-OCRS:[<TID>]:<FROMAID>,<TOAID>:<CTAG>::",
     response_class |-> "TL1BaseResponse",
     actual_verb |-> "",
     own_to_string |-> FALSE,
     fields |->
        ("fromaid" :> Required @@
         "toaid" :> Required)]

OperateValrouteOel ==
    [name |-> "OperateValrouteOel",
     verb |-> "OPR",
     modifier |-> "VALROUTE-OEL",
     help_text |->
        "OPR-VALROUTE-OEL:[<TID>]:<AID>:<CTAG>::::",
     response_class |-> "TL1BaseResponse",
     actual_verb |-> "",
     own_to_string |-> FALSE,
     fields |->
        ("aid" :> Required)]

OelResponse ==
    [name |-> "OelResponse",
     hooks |-> <<<<"AID", "positional_param_0_0", FALSE>>, <<"RESOURCETYPE", "positional_param_1_0", FALSE>>, <<"OPERSTATE", "positional_param_3_0", FALSE>>>>]

RetrieveOel ==
    [name |-> "RetrieveOel",
     verb |-> "RTRV",
     modifier |-> "OEL",
     help_text |->
        "RTRV-OEL:[<TID>]:[<AID>]:<CTAG>::::",
     response_class |-> "OelResponse",
     actual_verb |-> "",
     own_to_string |-> FALSE,
     fields |->
        ("aid" :> None)]

EnterOel ==
    [name |-> "EnterOel",
     verb |-> "ENT",
     modifier |-> "OEL",
     help_text |->
        "ENT-OEL:[<TID>]:<AID>:<CTAG>:::[<LABEL=label>,]<SRCNODENAME=srcnodename>,<DSTNODENAME=dstnodename>,<MODULATION=PM-NONE|PM-QPSK|PM-BPSK|PM-3QAM|PM-8QAM|PM-16QAM|PM-EBPSK|PM-MEPSK>,[<ENCODMOD=None|BC|BDLOpt|BDETOpt>,]<RATE=NA|500G|375G|250G|100G|50G|200G|150G|75G>,<SPECTYPE=NA|CS|SS>,<CARDTYPE=cardtype>,<FREQSLOTPLANTYPE=freqslotplantype>,[<COMPCARDTYPELIST=compcardtypelist>,][<VALIDFSLOTLIST=validfslotlist>,][<VALIDFRANGELIST=validfrangelist>,][<SRCPOWEROFFSET=srcpoweroffset>,][<DSTPOWEROFFSET=dstpoweroffset>,]<EXPLICITROUTE=explicitroute>[,<OELSOURCE=manual|NPS>][,<OEVERSION=oeversion>][,<NPSVERSION=npsversion>][,<BAUDRATE=NA|17G|22G|33G>][,<INTERCARRIERSPACING=18.75GHZ|25GHZ|37.5GHZ|50GHZ|62.5GHZ|75GHZ|NA>][,<GAURDBAND=gaurdband>][,<GAINSHARING=ENABLED|DISABLED>][,<CDDISPPRECOMP=ENABLED|DISABLED>][,<AGGPOLARTRACKING=ENABLED|DISABLED>][,<FECOHRATIO=FECOH-20|FECOH-25>][,<NUMFECITRNS=numfecitrns>]:[IS|OOS|AINS]",
     response_class |-> "TL1BaseResponse",
     actual_verb |-> "",
     own_to_string |-> FALSE,
     fields |->
        ("aid" :> Required @@
         "explicitroute" :> Required @@
         "label" :> Required @@
         "srcnodename" :> Required @@
         "dstnodename" :> Required @@
         "modulation" :> Str("PM-NONE") @@
         "encodmod" :> Str("None") @@
         "rate" :> Str("NA") @@
         "spectype" :> Str("NA") @@
         "cardtype" :> Str("UNKNOWN") @@
         "freqslotplantype" :> Str("FREQ-SLOT-PLAN-NONE") @@
         "compcardtypelist" :> Str("UNKNOWN") @@
         "srcpoweroffset" :> Str("0") @@
         "dstpoweroffset" :> Str("0") @@
         "oelsource" :> Str("MANUAL") @@
         "gaurdband" :> Str("0") @@
         "numfecitrns" :> Str("4") @@
         "is_oos_ains" :> Str("IS") @@
         "validfslotlist" :> None @@
         "validfrangelist" :> Required @@
         "oeversion" :> None @@
         "npsversion" :> None @@
         "baudrate" :> None @@
         "intercarrierspacing" :> None @@
         "gainsharing" :> None @@
         "cddispprecomp" :> None @@
         "aggpolartracking" :> None @@
         "fecohratio" :> None)]

EditOel ==
    [name |-> "EditOel",
     verb |-> "ED",
     modifier |-> "OEL",
     help_text |->
        "ED-OEL:[<TID>]:<AID>:<CTAG>:::[<LABEL=label>][,<OELSOURCE=manual|NPS>][,<COMPCARDTYPELIST=compcardtypelist>]:[IS|OOS|AINS]",
     response_class |-> "TL1BaseResponse",
     actual_verb |-> "",
     own_to_string |-> FALSE,
     fields |->
        ("aid" :> Required @@
         "label" :> None @@
         "oelsource" :> None @@
         "compcardtypelist" :> None @@
         "is_oos_ains" :> None)]

EnterOsnc ==
    [name |-> "EnterOsnc",
     verb |-> "ENT",
     modifier |-> "OSNC",
     help_text |->
        "ENT-OSNC:[<TID>]:<AID>:<CTAG>:::[<LABEL=label>,]<REMENDPOINT=remendpoint>,<REMNODETID=remnodetid>[,<OELAID=oelaid>][,<RESTORABLE=NONE|ENDTOEND|REVENDTOEND>][,<CKTIDSUFFIX=cktidsuffix>][,<PREPROV=TRUE|FALSE>][,<FREQSLOTLIST=freqslotlist>][,<PREFSUPCHLIST=prefsupchlist>][,<SRCLMSCH=srclmsch>][,<DSTLMSCH=dstlmsch>][,<TAG=tag>][,<PASSBANDLIST=passbandlist>][,<CARRIERLIST=carrierlist>][,<AUTORETUNELMSCH=ENABLED|DISABLED>][,<SRCRXSCHOFFSET=srcrxschoffset>][,<DSTRXSCHOFFSET=dstrxschoffset>][,<MODULATIONCAT=NA|16G|17G-DAC|17G-DAC-12GOFFSET|22G-DAC|22G-DAC-12GOFFSET|33G-DAC|33G-DAC-12GOFFSET>][,<PROFSCHNUM=profschnum>][,<SCHPROFID=schprofid>][,<PREFOELLIST=prefoellist>][,<SRCSCHTHPROFLIST=srcschthproflist>][,<DSTSCHTHPROFLIST=dstschthproflist>][,<WTR=wtr>][,<FAULTSOAKTIMER=faultsoaktimer>][,<BAUDRATE=NA|17G|22G|33G|16G>][,<MODULATION=PM-QPSK|PM-BPSK|PM-EBPSK|PM-3QAM|PM-8QAM|PM-16QAM|PM-NONE>][,<FREQSLOTPLANTYPE=freqslotplantype>][,<SRCSCHPOWEROFFSET=srcschpoweroffset>][,<DSTSCHPOWEROFFSET=dstschpoweroffset>][,<ROUTETYPE=OEL|DYNAMIC>][,<INCLISTROUTTYP=LOOSE|STRICT>][,<INCLIST=inclist>][,<EXCLISTROUTTYP=LOOSE|STRICT>][,<EXCLIST=exclist>][,<RESTINCLISTROUTTYP=LOOSE|STRICT>][,<RESTINCLIST=restinclist>][,<RESTEXCLISTROUTTYP=LOOSE|STRICT>][,<RESTEXCLIST=restexclist>][,<INTRACARRSPECSHAPING=ENABLED|DISABLED>][,<DIGITRIGGER=TRUE|FALSE>][,<RESTORATIONTRIGGER=OPTICALSF|DIGITALSF|DIGITALSFNSD>]:[IS|OOS]",
     response_class |-> "TL1BaseResponse",
     actual_verb |-> "",
     own_to_string |-> FALSE,
     fields |->
        ("cktidsuffix" :> Required @@
         "aid" :> Required @@
         "label" :> Required @@
         "remendpoint" :> Required @@
         "remnodetid" :> Required @@
         "oelaid" :> Required @@
         "passbandlist" :> Required @@
         "carrierlist" :> Required @@
         "restorable" :> Str("NONE") @@
         "preprov" :> Str("TRUE") @@
         "freqslotlist" :> None @@
         "prefsupchlist" :> None @@
         "srclmsch" :> None @@
         "dstlmsch" :> None @@
         "tag" :> None @@
         "autoretunelmsch" :> Str("DISABLED") @@
         "srcrxschoffset" :> Str("0") @@
         "dstrxschoffset" :> Str("0") @@
         "modulationcat" :> None @@
         "profschnum" :> None @@
         "schprofid" :> None @@
         "prefoellist" :> None @@
         "srcschthproflist" :> None @@
         "dstschthproflist" :> None @@
         "wtr" :> None @@
         "faultsoaktimer" :> Str("5") @@
         "baudrate" :> Str("NA") @@
         "modulation" :> Str("PM-NONE") @@
         "freqslotplantype" :> Str("FREQ-SLOT-PLAN-NONE") @@
         "srcschpoweroffset" :> Str("0") @@
         "dstschpoweroffset" :> Str("0") @@
         "routetype" :> Str("OEL") @@
         "inclistrouttyp" :> None @@
         "inclist" :> None @@
         "exclistrouttyp" :> None @@
         "exclist" :> None @@
         "restinclistrouttyp" :> None @@
         "restinclist" :> None @@
         "restexclistrouttyp" :> None @@
         "restexclist" :> None @@
         "intracarrspecshaping" :> Str("ENABLED") @@
         "digitrigger" :> Str("FALSE") @@
         "restorationtrigger" :> Str("OPTICALSF") @@
         "is_oos" :> Str("IS"))]

OsncResponse ==
    [name |-> "OsncResponse",
     hooks |-> <<<<"LOCENDPOINT", "positional_param_0_0", FALSE>>, <<"OPERSTATE", "positional_param_3_0", FALSE>>>>]

RetrieveOsnc ==
    [name |-> "RetrieveOsnc",
     verb |-> "RTRV",
     modifier |-> "OSNC",
     help_text |->
        "RTRV-OSNC:[<TID>]:[<AID>]:<CTAG>:::[<OELAID=oelaid>]:",
     response_class |-> "OsncResponse",
     actual_verb |-> "",
     own_to_string |-> FALSE,
     fields |->
        ("aid" :> None @@
         "oelaid" :> None)]

EditOsnc ==
    [name |-> "EditOsnc",
     verb |-> "ED",
     modifier |-> "OSNC",
     help_text |->
        "ED-OSNC:[<TID>]:<AID>:<CTAG>:::[<LABEL=label>][,<OELAID=oelaid>][,<RESTORABLE=NONE|ENDTOEND|REVENDTOEND>][,<PREFSUPCHLIST=prefsupchlist>][,<CKTIDSUFFIX=cktidsuffix>][,<PREPROV=TRUE|FALSE>][,<SRCLMSCH=srclmsch>][,<DSTLMSCH=dstlmsch>][,<TAG=tag>][,<PASSBANDLIST=passbandlist>][,<CARRIERLIST=carrierlist>][,<AUTORETUNELMSCH=ENABLED|DISABLED>][,<SRCRXSCHOFFSET=srcrxschoffset>][,<DSTRXSCHOFFSET=dstrxschoffset>][,<PROFSCHNUM=profschnum>][,<SCHPROFID=schprofid>][,<PREFOELLIST=prefoellist>][,<SRCSCHTHPROFLIST=srcschthproflist>][,<DSTSCHTHPROFLIST=dstschthproflist>][,<WTR=wtr>][,<FAULTSOAKTIMER=faultsoaktimer>][,<BAUDRATE=NA|17G|22G|33G|16G>][,<MODULATION=PM-QPSK|PM-BPSK|PM-EBPSK|PM-3QAM|PM-8QAM|PM-16QAM|PM-NONE>][,<FREQSLOTPLANTYPE=freqslotplantype>][,<SRCSCHPOWEROFFSET=srcschpoweroffset>][,<DSTSCHPOWEROFFSET=dstschpoweroffset>][,<ROUTETYPE=OEL|DYNAMIC>][,<INCLISTROUTTYP=LOOSE|STRICT>][,<INCLIST=inclist>][,<EXCLISTROUTTYP=LOOSE|STRICT>][,<EXCLIST=exclist>][,<RESTINCLISTROUTTYP=LOOSE|STRICT>][,<RESTINCLIST=restinclist>][,<RESTEXCLISTROUTTYP=LOOSE|STRICT>][,<RESTEXCLIST=restexclist>][,<INTRACARRSPECSHAPING=ENABLED|DISABLED>][,<DIGITRIGGER=TRUE|FALSE>][,<RESTORATIONTRIGGER=OPTICALSF|DIGITALSF|DIGITALSFNSD>]:[IS|OOS]",
     response_class |-> "TL1BaseResponse",
     actual_verb |-> "",
     own_to_string |-> FALSE,
     fields |->
        ("aid" :> Required @@
         "label" :> None @@
         "oelaid" :> None @@
         "restorable" :> None @@
         "prefsupchlist" :> None @@
         "cktidsuffix" :> None @@
         "preprov" :> None @@
         "srclmsch" :> None @@
         "dstlmsch" :> None @@
         "tag" :> None @@
         "passbandlist" :> None @@
         "carrierlist" :> None @@
         "autoretunelmsch" :> None @@
         "srcrxschoffset" :> None @@
         "dstrxschoffset" :> None @@
         "profschnum" :> None @@
         "schprofid" :> None @@
         "prefoellist" :> None @@
         "srcschthproflist" :> None @@
         "dstschthproflist" :> None @@
         "wtr" :> None @@
         "faultsoaktimer" :> None @@
         "baudrate" :> None @@
         "modulation" :> None @@
         "freqslotplantype" :> None @@
         "srcschpoweroffset" :> None @@
         "dstschpoweroffset" :> None @@
         "routetype" :> None @@
         "inclistrouttyp" :> None @@
         "inclist" :> None @@
         "exclistrouttyp" :> None @@
         "exclist" :> None @@
         "restinclistrouttyp" :> None @@
         "restinclist" :> None @@
         "restexclistrouttyp" :> None @@
         "restexclist" :> None @@
         "intracarrspecshaping" :> None @@
         "digitrigger" :> None @@
         "restorationtrigger" :> None @@
         "is_oos" :> None)]

DeleteOsnc ==
    [name |-> "DeleteOsnc",
     verb |-> "DLT",
     modifier |-> "OSNC",
     help_text |->
        "DLT-OSNC:[<TID>]:<AID>:<CTAG>::::",
     response_class |-> "TL1BaseResponse",
     actual_verb |-> "",
     own_to_string |-> FALSE,
     fields |->
        ("aid" :> Required)]

OteintfResponse ==
    [name |-> "OteintfResponse",
     hooks |-> <<<<"AID", "positional_param_0_0", FALSE>>, <<"OPERSTATE", "positional_param_3_0", FALSE>>, <<"FACILITY", "positional_param_1_0", FALSE>>>>]

RetrieveOteintf ==
    [name |-> "RetrieveOteintf",
     verb |-> "RTRV",
     modifier |-> "OTEINTF",
     help_text |->
        "RTRV-OTEINTF:[<TID>]:[<AID>]:<CTAG>::::",
     response_class |-> "OteintfResponse",
     actual_verb |-> "",
     own_to_string |-> FALSE,
     fields |->
        <<>>]

OtsResponse ==
    [name |-> "OtsResponse",
     hooks |-> <<<<"AID", "positional_param_0_0", TRUE>>, <<"RESOURCETYPE", "positional_param_1_0", TRUE>>, <<"OPERSTATE", "positional_param_3_0", TRUE>>, <<"SUBOPERSTATE", "positional_param_3_1", TRUE>>>>]

RetrieveOts ==
    [name |-> "RetrieveOts",
     verb |-> "RTRV",
     modifier |-> "OTS",
     help_text |->
        "RTRV-OTS:[<TID>]:[<AID>]:<CTAG>::::",
     response_class |-> "OtsResponse",
     actual_verb |-> "",
     own_to_string |-> FALSE,
     fields |->
        ("aid" :> None)]

EditOts ==
    [name |-> "EditOts",
     verb |-> "ED",
     modifier |-> "OTS",
     help_text |->
        "ED-OTS:[<TID>]:<AID>:<CTAG>:::[<PASSPROVNBRTP=passprovnbrtp>][,<LABEL=label>][,<TXFIBERTYPE=txfibertype>][,<PROVRXFIBERTYPE=provrxfibertype>][,<OLOSSOAKTIME=olossoaktime>][,<RXFIBERTYPEOVERRIDE=ENABLE|DISABLE>][,<RXASSOCIATEDOTS=rxassociatedots>][,<TXASSOCIATEDOTS=txassociatedots>][,<HISTSTATS=ENABLE|DISABLE>][,<INLINEDCMTYPE=inlinedcmtype>][,<PRESPANPAD=prespanpad>][,<POSTSPANPAD=postspanpad>][,<SPANDIST=spandist>][,<PROVNBRNODEID=provnbrnodeid>][,<PROVNBROTS=provnbrots>][,<RXEQPTLIST=rxeqptlist>][,<TXEQPTLIST=txeqptlist>][,<ASSOCIATEDSLTETP=associatedsltetp>][,<RXASSOCIATEDSLTEPTP=rxassociatedslteptp>][,<TXTTI=txtti>][,<EXPSAPI=expsapi>][,<EXPDAPI=expdapi>][,<TIMDETMODE=OFF|DAPI|SAPI|SAPI_DAPI>][,<OPTSPECT=CBAND|EXTENDEDCBAND|CLBAND>][,<EXPSPANLOSS=UNDER25DB|OVER25DB>][,<OAMCONTROL=ENABLE|DISABLE>][,<FIBERLABELTX=fiberlabeltx>][,<PEERTLAAMPOTSAID=peertlaampotsaid>][,<OTSOLOSEVTREPORTING=ENABLED|DISABLED>][,<AUTOOTDRTRACE=ENABLED|DISABLED>]",
     response_class |-> "TL1BaseResponse",
     actual_verb |-> "",
     own_to_string |-> FALSE,
     fields |->
        ("aid" :> Required @@
         "passprovnbrtp" :> None @@
         "label" :> None @@
         "txfibertype" :> None @@
         "provrxfibertype" :> None @@
         "olossoaktime" :> None @@
         "rxfibertypeoverride" :> None @@
         "rxassociatedots" :> None @@
         "txassociatedots" :> None @@
         "histstats" :> None @@
         "inlinedcmtype" :> None @@
         "prespanpad" :> None @@
         "postspanpad" :> None @@
         "spandist" :> None @@
         "provnbrnodeid" :> None @@
         "provnbrots" :> None @@
         "rxeqptlist" :> None @@
         "txeqptlist" :> None @@
         "associatedsltetp" :> None @@
         "rxassociatedslteptp" :> None @@
         "txtti" :> None @@
         "expsapi" :> None @@
         "expdapi" :> None @@
         "timdetmode" :> None @@
         "optspect" :> None @@
         "expspanloss" :> None @@
         "oamcontrol" :> None @@
         "fiberlabeltx" :> None @@
         "peertlaampotsaid" :> None @@
         "otsolosevtreporting" :> None @@
         "autootdrtrace" :> None)]

ScgResponse ==
    [name |-> "ScgResponse",
     hooks |-> <<<<"AID", "positional_param_0_0", TRUE>>, <<"RESOURCETYPE", "positional_param_1_0", TRUE>>, <<"OPERSTATE", "positional_param_3_0", TRUE>>, <<"SUBOPERSTATE", "positional_param_3_1", TRUE>>>>]

RetrieveScg ==
    [name |-> "RetrieveScg",
     verb |-> "RTRV",
     modifier |-> "SCG",
     help_text |->
        "RTRV-SCG:[<TID>]:[<AID>]:<CTAG>::[FMM|FRM|FSM|OFX|FMP|FMMF250|FMMC5|XT|FMMC12|FBM|MXP|FMMC6|FMMC6L]::",
     response_class |-> "ScgResponse",
     actual_verb |-> "",
     own_to_string |-> FALSE,
     fields |->
        ("type" :> None)]

EditScg ==
    [name |-> "EditScg",
     verb |-> "ED",
     modifier |-> "SCG",
     help_text |->
        "ED-SCG:[<TID>]:<AID>:<CTAG>:::[<LABEL=label>][,<PROVNBRTP=provnbrtp>][,<PASSPROVNBRTP=passprovnbrtp>][,<PROVFPMPO=provfpmpo>][,<INTFTYP=INFWAVE|OPENWAVE|ASEIDLER|MANUALMODE-1|MANUALMODE-2|SLTEMANUAL-1|PASSIVE>][,<HISTSTATS=ENABLE|DISABLE>][,<PROVOWREMPTP=provowremptp>][,<TXPROVOWREMPTP=txprovowremptp>][,<RXPROVOWREMPTP=rxprovowremptp>][,<CMDMDE=NORM|FRCD>][,<PROVENCMODE=BC|BDLOPT|BDETOPT>][,<LINESYSMODE=MODESCG|MODEOPENWAVE|MODESCGPASSIVEMUX_1|MODEOPENAUTOMATED>][,<TARGETTXPOWEROFFSET=targettxpoweroffset>][,<TXEDFAPOWEROFFSET=txedfapoweroffset>][,<RXEDFAPOWEROFFSET=rxedfapoweroffset>][,<RXPOWEROFFSET=rxpoweroffset>][,<TXPOWEROFFSET=txpoweroffset>][,<RXPROVNBRTP=rxprovnbrtp>][,<ADSOAKTIMER=adsoaktimer>][,<PROVALPHABIN=Alphabin_2|Alphabin_8>][,<TRAFFICMOD=ADDDROP|PATHLOSSCHECKSOURCE>][,<SERVICESTATEFWD=ENABLED|DISABLED>][,<SERVICESTATEBWD=ENABLED|DISABLED>][,<CARRIERCOUNT=carriercount>][,<OWTARGETTXSCGPOWER=owtargettxscgpower>][,<PEERPORTAID=peerportaid>][,<PROVSPECTRUMTYPE=CS|SS|SS-A|SS-B>][,<RXEDFAGAIN=rxedfagain>][,<PROVFECOHRATIO=FECOH_20|FECOH_25>][,<OPMODE=GEN1|GEN2|FLEX>][,<PROVNBRTPTYPE=UNKNOWN|FBMSCGPTP>][,<LINEOPMODE=PASSIVE|ACTIVE>][,<DEFFLEXLICMODFORMAT=BPSK|QPSK|3QAM|8QAM|16QAM>][,<RXPCLOPRMODE=CONSTANTPOWER|CONSTANTGAIN>][,<CARRCNT33G=carrcnt33g>][,<CARRCNT22G=carrcnt22g>][,<CARRCNT17G=carrcnt17g>][,<OPTICALSIGNAL=ENABLED|MUTE|SHUTDOWN>][,<PERCARRTGTTXPWR=percarrtgttxpwr>][,<AUTODISCNBR=ENABLE|DISABLE>][,<LOTUNABLE=MASTER|SLAVE>][,<OWCONTENTIONCHECK=ENABLED|DISABLED>][,<FORCEDOPERATION=TRUE|FALSE>][,<INTFPROFILE=DEFAULT|SLTE_ADDDROP>]:[IS|OOS]",
     response_class |-> "TL1BaseResponse",
     actual_verb |-> "",
     own_to_string |-> FALSE,
     fields |->
        ("aid" :> Required @@
         "label" :> None @@
         "provnbrtp" :> None @@
         "passprovnbrtp" :> None @@
         "provfpmpo" :> None @@
         "intftyp" :> None @@
         "histstats" :> None @@
         "provowremptp" :> None @@
         "txprovowremptp" :> None @@
         "rxprovowremptp" :> None @@
         "cmdmde" :> None @@
         "provencmode" :> None @@
         "linesysmode" :> None @@
         "targettxpoweroffset" :> None @@
         "txedfapoweroffset" :> None @@
         "rxedfapoweroffset" :> None @@
         "rxpoweroffset" :> None @@
         "txpoweroffset" :> None @@
         "rxprovnbrtp" :> None @@
         "adsoaktimer" :> None @@
         "provalphabin" :> None @@
         "trafficmod" :> None @@
         "servicestatefwd" :> None @@
         "servicestatebwd" :> None @@
         "carriercount" :> None @@
         "owtargettxscgpower" :> None @@
         "peerportaid" :> None @@
         "provspectrumtype" :> None @@
         "rxedfagain" :> None @@
         "provfecohratio" :> None @@
         "opmode" :> None @@
         "provnbrtptype" :> None @@
         "lineopmode" :> None @@
         "defflexlicmodformat" :> None @@
         "rxpcloprmode" :> None @@
         "carrcnt33g" :> None @@
         "carrcnt22g" :> None @@
         "carrcnt17g" :> None @@
         "opticalsignal" :> None @@
         "percarrtgttxpwr" :> None @@
         "autodiscnbr" :> None @@
         "lotunable" :> None @@
         "owcontentioncheck" :> None @@
         "forcedoperation" :> None @@
         "intfprofile" :> None @@
         "is_oos" :> None)]

SchResponse ==
    [name |-> "SchResponse",
     hooks |-> <<<<"AID", "positional_param_0_0", TRUE>>, <<"RESOURCETYPE", "positional_param_1_0", TRUE>>, <<"OPERSTATE", "positional_param_3_0", TRUE>>, <<"SUBOPERSTATE", "positional_param_3_1", TRUE>>>>]

RetrieveSch ==
    [name |-> "RetrieveSch",
     verb |-> "RTRV",
     modifier |-> "SCH",
     help_text |->
        "RTRV-SCH:[<TID>]:[<AID>]:<CTAG>::::",
     response_class |-> "SchResponse",
     actual_verb |-> "",
     own_to_string |-> FALSE,
     fields |->
        ("aid" :> None)]

EditSch ==
    [name |-> "EditSch",
     verb |-> "ED",
     modifier |-> "SCH",
     help_text |->
        "ED-SCH:[<TID>]:<AID>:<CTAG>:::[<LABEL=label>][,<HISTSTATS=ENABLE|DISABLE>][,<MODULATION=PM-QPSK|PM-BPSK|PM-3QAM|PM-8QAM|PM-16QAM|PM-MEPSK>][,<SUPCHNUM=supchnum>][,<EXPTTI=exptti>][,<TXTTI=txtti>][,<SHUTTERSTATE=OPEN|CLOSED>][,<INTRASCHCARRRIPPLETH=intraschcarrrippleth>][,<INTRASCHCARRIERRIPPLE=Enabled|Disabled>][,<BAUDRATE=17G|22G|33G>][,<PROVPBLIST=provpblist>][,<PROVSUPPORTINGCARRGRPLIST=provsupportingcarrgrplist>][,<RXSCHPWROFFSET=rxschpwroffset>][,<OPTICALSIGNAL=ENABLED|SHUTDOWN>][,<MUXPWRCONTROLLOOP=MANUAL|AUTOMATIC>][,<DEMUXPWRCONTROLLOOP=ENABLED|DISABLED>][,<DEMUXSHUTTERSTATE=OPEN|CLOSED>][,<OSNRADD=osnradd>][,<SCHOFFSET=schoffset>][,<OFFSETOVERRIDE=ENABLED|DISABLED>][,<ADJSCHCTP=adjschctp>]:[IS|OOS]",
     response_class |-> "TL1BaseResponse",
     actual_verb |-> "",
     own_to_string |-> FALSE,
     fields |->
        ("aid" :> Required @@
         "label" :> None @@
         "histstats" :> None @@
         "modulation" :> None @@
         "supchnum" :> None @@
         "exptti" :> None @@
         "txtti" :> None @@
         "shutterstate" :> None @@
         "intraschcarrrippleth" :> None @@
         "intraschcarrierripple" :> None @@
         "baudrate" :> None @@
         "provpblist" :> None @@
         "provsupportingcarrgrplist" :> None @@
         "rxschpwroffset" :> None @@
         "opticalsignal" :> None @@
         "muxpwrcontrolloop" :> None @@
         "demuxpwrcontrolloop" :> None @@
         "demuxshutterstate" :> None @@
         "osnradd" :> None @@
         "schoffset" :> None @@
         "offsetoverride" :> None @@
         "adjschctp" :> None @@
         "is_oos" :> None)]

EnterSch ==
    [name |-> "EnterSch",
     verb |-> "ENT",
     modifier |-> "SCH",
     help_text |->
        "ENT-SCH:[<TID>]:<AID>:<CTAG>:::[<FREQSLOTPLANTYPE=freqslotplantype>][,<SUPCHNUM=supchnum>][,<MODULATION=PM-QPSK|PM-BPSK|PM-3QAM|PM-8QAM|PM-16QAM|PM-MEPSK>][,<BAUDRATE=17G|22G|33G>][,<PROVPBLIST=provpblist>][,<PROVSUPPORTINGCARRGRPLIST=provsupportingcarrgrplist>][,<LABEL=label>][,<SCHPROFID=schprofid>][,<PROFSCHNUM=profschnum>]:[IS|OOS]",
     response_class |-> "TL1BaseResponse",
     actual_verb |-> "",
     own_to_string |-> FALSE,
     fields |->
        ("aid" :> Required @@
         "freqslotplantype" :> None @@
         "supchnum" :> None @@
         "modulation" :> None @@
         "baudrate" :> None @@
         "provpblist" :> None @@
         "provsupportingcarrgrplist" :> None @@
         "label" :> None @@
         "schprofid" :> None @@
         "profschnum" :> None @@
         "is_oos" :> None)]

DeleteSch ==
    [name |-> "DeleteSch",
     verb |-> "DLT",
     modifier |-> "SCH",
     help_text |->
        "DLT-SCH:[<TID>]:<AID>:<CTAG>::::",
     response_class |-> "TL1BaseResponse",
     actual_verb |-> "",
     own_to_string |-> FALSE,
     fields |->
        ("aid" :> Required)]

MaintenanceSch ==
    [name |-> "MaintenanceSch",
     verb |-> "RMV",
     modifier |-> "SCH",
     help_text |->
        "RMV-{EQPT|OCH|DTPCTP|TRIB|OC768|OC192|OC48|OC12|OC3|STM256|STM64|STM16|STM4|STM1|10GBE|SNC|1GBE|10GCC|4GCC|HD1485CC|HD1483CC|SD270CC|DVB270CC|DV6000CC|ESCON200CC|IB25GCC|IB10GCC|25GCC|1G0625CC|1G25CC|2G125CC|NCT|SUBCLIENT|VCG|DCH|OTU1|OTU1E|OTU2|OTU3|OTU4|OTUC1I10|OTUC1I|OTUC2I|OTUC3I50|OTUC1I7G5|OTUC1I15|OTUC2I22G5|OTUC2I30|OTUC2I37G5|OTUC3I45|OTUC3I52G5|OTUC3I|OTUC4I67G5|OTUC4I75|OTUC24I|OTUC18I|OTUC12I|OTUC10I|OTUC20I|OTUC8I150|OTUC15I|OTUC5I|OTUC2I|OTUC1I|OTUC4I|OTUC9I|OTUC6I|OTUC8I|OTUC1I10|OTUC1I5|OTUC5I90|OTUC22I|OTUC16I|OTUC14I|OTUC17I330|OTUC14I270|OTUC11I210|OTUC11I|OTUC7I|OTUC9I165|OTUC7I135|OTUC6I105|OTUC6I110|OTUC4I70|OTUC3I55|OTUC2I35|OTUC2I25|OTUC5I82G5|OTU2E|OTU3E1|OTU3E2|ODU0|ODU1|ODU2|ODU3|ODU4|ODU1E|ODU2E|ODU3E1|ODU3E2|ODU1T|ODU1ET|ODU2T|ODU2ET|ODU2IT|ODU3IT|ODUFLEXIT|ODU3IPT|ODU4IT|OTU3I|OTU3IP|OTU4I|ODU2I|ODU3I|ODUFLEXI|ODUFLEX|ODU3IP|ODU4I|ODUC1I10|ODUC1I|ODUC2I|ODUC3I50|ODUC1I7G5|ODUC1I15|ODUC2I22G5|ODUC2I30|ODUC2I37G5|ODUC3I45|ODUC3I52G5|ODUC3I|ODUC4I67G5|ODUC4I75|ODUC24I|ODUC18I|ODUC12I|ODUC10I|ODUC20I|ODUC8I150|ODUC15I|ODUC5I|ODUC4I|ODUC9I|ODUC6I|ODUC8I|ODUC1I5|ODUC5I90|ODUC22I|ODUC16I|ODUC14I|ODUC17I330|ODUC14I270|ODUC11I210|ODUC11I|ODUC7I|ODUC9I165|ODUC7I135|ODUC6I105|ODUC6I110|ODUC4I70|ODUC3I55|ODUC2I35|ODUC2I25|ODUC5I82G5|1GFC|2GFC|4GFC|8GFC|10GFC|40GBE|100GBE|400GBE|10G3CC|OCHCTP|OCHPTP|11G1CC|GFP|GTP|SCH|PWRFEED|IDLERCTP|IDLERPTP|OSNC|CARRIERCTP|DIGITALWRAPPER|FLEXCARRIER|BANDPTP|NTP|ETHIF|AC|NWIF|VSI|PW|OPSMPTP|SCG|OCG|OLDPSCH|IKE|ASEPTP|BAND|OTS|EXPNPTP|NCC|OSC}:[<TID>]:<AID>:<CTAG>::[<mode>],[<state>]",
     response_class |-> "TL1BaseResponse",
     actual_verb |-> "",
     own_to_string |-> FALSE,
     fields |->
        ("aid" :> Required @@
         "mode" :> None @@
         "state" :> None)]

RestoreAdminStateSch ==
    [name |-> "RestoreAdminStateSch",
     verb |-> "RMV",
     modifier |-> "SCH",
     help_text |->
        "RMV-{EQPT|OCH|DTPCTP|TRIB|OC768|OC192|OC48|OC12|OC3|STM256|STM64|STM16|STM4|STM1|10GBE|SNC|1GBE|10GCC|4GCC|HD1485CC|HD1483CC|SD270CC|DVB270CC|DV6000CC|ESCON200CC|IB25GCC|IB10GCC|25GCC|1G0625CC|1G25CC|2G125CC|NCT|SUBCLIENT|VCG|DCH|OTU1|OTU1E|OTU2|OTU3|OTU4|OTUC1I10|OTUC1I|OTUC2I|OTUC3I50|OTUC1I7G5|OTUC1I15|OTUC2I22G5|OTUC2I30|OTUC2I37G5|OTUC3I45|OTUC3I52G5|OTUC3I|OTUC4I67G5|OTUC4I75|OTUC24I|OTUC18I|OTUC12I|OTUC10I|OTUC20I|OTUC8I150|OTUC15I|OTUC5I|OTUC2I|OTUC1I|OTUC4I|OTUC9I|OTUC6I|OTUC8I|OTUC1I10|OTUC1I5|OTUC5I90|OTUC22I|OTUC16I|OTUC14I|OTUC17I330|OTUC14I270|OTUC11I210|OTUC11I|OTUC7I|OTUC9I165|OTUC7I135|OTUC6I105|OTUC6I110|OTUC4I70|OTUC3I55|OTUC2I35|OTUC2I25|OTUC5I82G5|OTU2E|OTU3E1|OTU3E2|ODU0|ODU1|ODU2|ODU3|ODU4|ODU1E|ODU2E|ODU3E1|ODU3E2|ODU1T|ODU1ET|ODU2T|ODU2ET|ODU2IT|ODU3IT|ODUFLEXIT|ODU3IPT|ODU4IT|OTU3I|OTU3IP|OTU4I|ODU2I|ODU3I|ODUFLEXI|ODUFLEX|ODU3IP|ODU4I|ODUC1I10|ODUC1I|ODUC2I|ODUC3I50|ODUC1I7G5|ODUC1I15|ODUC2I22G5|ODUC2I30|ODUC2I37G5|ODUC3I45|ODUC3I52G5|ODUC3I|ODUC4I67G5|ODUC4I75|ODUC24I|ODUC18I|ODUC12I|ODUC10I|ODUC20I|ODUC8I150|ODUC15I|ODUC5I|ODUC4I|ODUC9I|ODUC6I|ODUC8I|ODUC1I5|ODUC5I90|ODUC22I|ODUC16I|ODUC14I|ODUC17I330|ODUC14I270|ODUC11I210|ODUC11I|ODUC7I|ODUC9I165|ODUC7I135|ODUC6I105|ODUC6I110|ODUC4I70|ODUC3I55|ODUC2I35|ODUC2I25|ODUC5I82G5|1GFC|2GFC|4GFC|8GFC|10GFC|40GBE|100GBE|400GBE|10G3CC|OCHCTP|OCHPTP|11G1CC|GFP|GTP|SCH|PWRFEED|IDLERCTP|IDLERPTP|OSNC|CARRIERCTP|DIGITALWRAPPER|FLEXCARRIER|BANDPTP|NTP|ETHIF|AC|NWIF|VSI|PW|OPSMPTP|SCG|OCG|OLDPSCH|IKE|ASEPTP|BAND|OTS|EXPNPTP|NCC|OSC}:[<TID>]:<AID>:<CTAG>::[<mode>],[<state>]",
     response_class |-> "TL1BaseResponse",
     actual_verb |-> "",
     own_to_string |-> FALSE,
     fields |->
        ("aid" :> Required @@
         "mode" :> None @@
         "state" :> None)]

\* TL1BaseResponse.rename_positional_params: the identity
TL1BaseResponse ==
    [name |-> "TL1BaseResponse",
     hooks |-> <<>>]

CommandClasses ==
    {RetrieveEqpt, IntoAdminMaintenance, OutofAdminMaintenance,
     RetrieveOcrs, EnterOcrs, EditOcrs, DeleteOcrs,
     OperateValrouteOel, RetrieveOel, EnterOel, EditOel,
     EnterOsnc, RetrieveOsnc, EditOsnc, DeleteOsnc,
     RetrieveOteintf, RetrieveOts, EditOts, RetrieveScg, EditScg,
     RetrieveSch, EditSch, EnterSch, DeleteSch, MaintenanceSch, RestoreAdminStateSch}

ResponseClasses ==
    {TL1BaseResponse, EqptResponse, OcrsResponse, OelResponse, OsncResponse,
     OteintfResponse, OtsResponse, ScgResponse, SchResponse}

ClassTable ==
    [n \in {c.name : c \in CommandClasses} |-> CHOOSE c \in CommandClasses : c.name = n]
ResponseTable ==
    [n \in {c.name : c \in ResponseClasses} |-> CHOOSE c \in ResponseClasses : c.name = n]

ClassNamed(n) == ClassTable[n]
ResponseNamed(n) == ResponseTable[n]

\* the command modules found by commands/__init__.py, and the classes each
\* defines, in the order of definition
Modules ==
    {"eqpt", "maintenance_state", "ocrs", "oel", "osnc", "oteintf", "ots", "scg", "sch"}

ModuleClasses ==
    [eqpt |-> <<"RetrieveEqpt">>,
     maintenance_state |-> <<"IntoAdminMaintenance", "OutofAdminMaintenance">>,
     ocrs |-> <<"RetrieveOcrs", "EnterOcrs", "EditOcrs", "DeleteOcrs">>,
     oel |-> <<"OperateValrouteOel", "RetrieveOel", "EnterOel", "EditOel">>,
     osnc |-> <<"EnterOsnc", "RetrieveOsnc", "EditOsnc", "DeleteOsnc">>,
     oteintf |-> <<"RetrieveOteintf">>,
     ots |-> <<"RetrieveOts", "EditOts">>,
     scg |-> <<"RetrieveScg", "EditScg">>,
     sch |-> <<"RetrieveSch", "EditSch", "EnterSch", "DeleteSch",
               "MaintenanceSch", "RestoreAdminStateSch">>]

(***************************************************************************)
(* The maintenance-state commands' own to_string (maintenance_state.py).   *)
(***************************************************************************)
\* str(value) of an attribute that may be None
PyStr(value) == IF value = None THEN "None" ELSE ValueText(value)

\* one token of a section: positional only (maintenance_state.py 54-65)
MaintenanceEmitPart(rawpart, attrs) ==
    LET is_optional == StartsWith(rawpart, "[") /\ EndsWith(rawpart, "]")
        part == Strip(rawpart, {"[", "]", "<", ">"})
    IN  IF part = "" THEN <<>>
        ELSE LET name == Replace(Lower(part), "-", "_")
                 value == Getattr(attrs, name)
             IN  IF value # None THEN <<ValueText(value)>>
                 ELSE IF ~is_optional THEN <<"">>
                 ELSE <<>>

RECURSIVE MaintenanceEmitParts(_, _)
MaintenanceEmitParts(parts, attrs) ==
    IF parts = <<>> THEN <<>>
    ELSE MaintenanceEmitPart(parts[1], attrs) \o MaintenanceEmitParts(Tail(parts), attrs)

MaintenanceEmitSection(rawsection, attrs) ==
    IF StripWs(rawsection) = "" THEN ""
    ELSE LET section == Replace(Replace(rawsection, ",]", "],"), "[,", ",[")
         IN  Join(MaintenanceEmitParts(Split(section, ","), attrs), ",")

RECURSIVE MaintenanceEmitSections(_, _)
MaintenanceEmitSections(sections, attrs) ==
    IF sections = <<>> THEN <<>>
    ELSE <<MaintenanceEmitSection(sections[1], attrs)>>
         \o MaintenanceEmitSections(Tail(sections), attrs)

\* IntoAdminMaintenance.to_string
IntoAdminMaintenance_to_string(cls, attrs) ==
    LET sections == Split(cls.help_text, ":")
        result == <<cls.actual_verb \o "-" \o PyStr(Getattr(attrs, "aidtype"))>>
                  \o MaintenanceEmitSections(Tail(sections), attrs)
    IN  Join(result, ":") \o ";"

\* OutofAdminMaintenance.to_string
OutofAdminMaintenance_to_string(cls, attrs) ==
    LET sections == Split(cls.help_text, ":")
        result == <<cls.verb \o "-" \o PyStr(Getattr(attrs, "aidtype"))>>
                  \o MaintenanceEmitSections(Tail(sections), attrs)
    IN  Join(result, ":") \o ";"

\* self.to_string() as the method resolution order finds it
ToStringOf(cls, attrs) ==
    IF cls.name = "IntoAdminMaintenance" THEN IntoAdminMaintenance_to_string(cls, attrs)
    ELSE IF cls.name = "OutofAdminMaintenance" THEN OutofAdminMaintenance_to_string(cls, attrs)
    ELSE to_string(cls.help_text, cls.verb, cls.modifier, attrs)

\* the exception to_string raises, or "": value[0] of an empty list or tuple
\* given to a named parameter is an IndexError (base.py 204-205); the
\* maintenance-state serializers have no named parameters
to_string_error(cls, attrs) ==
    LET raises(rawsection) ==
            /\ StripWs(rawsection) # ""
            /\ LET parts == Split(Replace(Replace(rawsection, ",]", "],"), "[,", ",["), ",")
               IN  \E k \in 1..Len(parts) :
                       LET part == Strip(parts[k], {"[", "]", "<", ">"})
                           value == Getattr(attrs, Replace(Lower(Split(part, "=")[1]), "-", "_"))
                       IN  /\ part # ""
                           /\ Contains(part, "=")
                           /\ value.kind \in {"list", "lol"}
                           /\ value.v = <<>>
        sections == Tail(Split(cls.help_text, ":"))
    IN  IF ~cls.own_to_string /\ \E s \in 1..Len(sections) : raises(sections[s])
        THEN "IndexError" ELSE ""

(***************************************************************************)
(* Construction of a command instance (pydantic model).                    *)
(***************************************************************************)
DEFAULT_CTAG == "100"

\* the fields TL1BaseCommand declares (base.py 154-158)
BaseFields ==
    ("tid" :> None) @@ ("aid" :> None) @@ ("ctag" :> Str(DEFAULT_CTAG))

\* command_cls(tid=device_tid, **kwargs): the attribute values, keyword
\* arguments first, then the defaults of the class, then those of the base
\* class; keywords that name no field are ignored
BuildAttrs(cls, device_tid, kwargs) ==
    LET declared == cls.fields @@ BaseFields
        given == kwargs @@ ("tid" :> Str(device_tid)) @@ declared
    IN  [k \in DOMAIN declared |-> given[k]]

\* pydantic rejects the construction when a required field has no value
MissingRequired(attrs) == {k \in DOMAIN attrs : attrs[k] = Required}

(***************************************************************************)
(* TL1BaseResponse.from_raw_text and TL1BaseCommand.execute.               *)
(***************************************************************************)
COMPLD == "COMPLD"
DENY == "DENY"
ALREADY == "ALREADY"

\* further members of the completion-status enumeration
OtherVendorCodes == {"PRTL", "DELAY"}

TL1CompletionStatus == {COMPLD, DENY, ALREADY} \cup OtherVendorCodes

Error(kind) == [kind |-> "error", error |-> kind]

\* the exception classes behind the error kinds: a malformed or untagged
\* response raises ValueError (base.py 76), a registry miss AttributeError
\* (client.py 67)
ProtocolError == "ValueError"
UnknownCommandError == "AttributeError"

\* record.pop(old) / record.pop(old, ""), then record[new] = the popped value;
\* ok is FALSE when a pop without default misses its key (KeyError)
RECURSIVE ApplyHooks(_, _)
ApplyHooks(record, hooks) ==
    IF hooks = <<>> THEN [ok |-> TRUE, v |-> record]
    ELSE LET new == hooks[1][1]
             old == hooks[1][2]
             has_default == hooks[1][3]
             rest == [k \in DOMAIN record \ {old} |-> record[k]]
         IN  IF old \in DOMAIN record
             THEN ApplyHooks(SetItem(rest, new, record[old]), Tail(hooks))
             ELSE IF has_default
             THEN ApplyHooks(SetItem(record, new, Str("")), Tail(hooks))
             ELSE [ok |-> FALSE, v |-> <<>>]

\* rename_positional_params of a response class, over all records
RECURSIVE rename_positional_params(_, _)
rename_positional_params(hooks, records) ==
    IF records = <<>> THEN [ok |-> TRUE, v |-> <<>>]
    ELSE LET first == ApplyHooks(records[1], hooks)
             rest == rename_positional_params(hooks, Tail(records))
         IN  IF first.ok /\ rest.ok
             THEN [ok |-> TRUE, v |-> <<first.v>> \o rest.v]
             ELSE [ok |-> FALSE, v |-> <<>>]

\* str() of the exception from_raw_text raises: the ValueError of base.py 76
\* holds the tag and the message, the others hold neither
ErrorText(message, tag) ==
    IF RFind(message, tag) = -1
    THEN "Could not find tag " \o tag \o " in message: " \o message
    ELSE LET status == MatchStatusWord(Slice(message, RFind(message, tag) + Len(tag)))
         IN  IF status = "" THEN "'NoneType' object has no attribute 'group'"
             ELSE "'" \o status \o "' is not a valid TL1CompletionStatus"

\* a parser that reads the status after the first occurrence of the tag
from_raw_text_FirstTag(message, tag, rc) ==
    LET index == Find(message, tag)
        status == MatchStatusWord(Slice(message, index + Len(tag)))
        body == Slice(message, Find(message, tag))
        lines == SplitLines(StripWs(body))
        records == ParseLines(Tail(lines))
        renamed == rename_positional_params(rc.hooks, records)
    IN  IF index = -1 THEN Error("ValueError")
        ELSE IF status = "" THEN Error("AttributeError")
        ELSE IF status \notin TL1CompletionStatus THEN Error("ValueError")
        ELSE IF ~renamed.ok THEN Error("KeyError")
        ELSE [kind |-> "envelope", status |-> status, raw_data |-> body,
              parsed_data |-> renamed.v, ctag |-> tag]

\* TL1BaseResponse.from_raw_text(message, tag) on response class rc: the
\* envelope, or the exception raised
from_raw_text(message, tag, rc) ==
    LET index == RFind(message, tag)
        status == MatchStatusWord(Slice(message, index + Len(tag)))
        body == Slice(message, Find(message, tag))
        lines == SplitLines(StripWs(body))
        records == ParseLines(Tail(lines))
        renamed == rename_positional_params(rc.hooks, records)
    IN  IF index = -1 THEN Error("ValueError")
        ELSE IF status = "" THEN Error("AttributeError")
        ELSE IF status \notin TL1CompletionStatus THEN Error("ValueError")
        ELSE IF ~renamed.ok THEN Error("KeyError")
        ELSE [kind |-> "envelope", status |-> status, raw_data |-> body,
              parsed_data |-> renamed.v, ctag |-> tag]

\* TL1CommandDeniedError(client.device_uuid, command_str, response_str)
TL1CommandDeniedError(device_uuid, command_str, response_str) ==
    [kind |-> "error", error |-> "TL1CommandDeniedError",
     device_uuid |-> device_uuid, command |-> command_str, response |-> response_str]

\* a DENY scan that does not look for the ALREADY marker
IsDenied_IgnoresAlready(response_str) == Contains(response_str, DENY)

\* the DENY scan of execute (base.py 167-170)
IsDenied(response_str) ==
    Contains(response_str, DENY) /\ ~Contains(response_str, ALREADY)

\* TL1BaseCommand.execute after the transport has returned response_str
execute_result(device_uuid, command_str, response_str, ctag, rc) ==
    IF IsDenied(response_str)
    THEN TL1CommandDeniedError(device_uuid, command_str, response_str)
    ELSE from_raw_text(response_str, ctag, rc)

(***************************************************************************)
(* Registry.                                                               *)
(***************************************************************************)
\* the method name TL1CommandRegistry.register derives (base.py 34-37)
method_name(cls) ==
    Lower(cls.verb) \o "_" \o Replace(Lower(cls.modifier), "-", "_")

\* TL1CommandRegistry.register: cls.commands[method_name] = command_class
register(commands, cls) == (method_name(cls) :> cls.name) @@ commands

\* TL1CommandMeta.__new__ on the class statement of `name`
TL1CommandMeta_new(commands, name) ==
    IF name # "TL1BaseCommand" THEN register(commands, ClassNamed(name)) ELSE commands

\* TL1CommandRegistry.commands.get(name)
RegistryGet(commands, name) == IF name \in DOMAIN commands THEN commands[name] ELSE "None"

\* an eager binding whose closures all see the loop variable's final value
init_command_methods_LateBinding(commands) ==
    [n \in DOMAIN commands |-> commands[CHOOSE m \in DOMAIN commands : TRUE]]

\* FlexILSClient._init_command_methods: one bound method per registry item,
\* each closing over its own command class
init_command_methods(commands) == [n \in DOMAIN commands |-> commands[n]]

\* a fallback that answers a registry miss with some registered command
getattr_fallback_Default(commands, name) ==
    IF name \in DOMAIN commands THEN commands[name]
    ELSE IF DOMAIN commands = {} THEN "None"
    ELSE commands[CHOOSE m \in DOMAIN commands : TRUE]

\* FlexILSClient.__getattr__(name): the class the returned method closes over
getattr_fallback(commands, name) == RegistryGet(commands, name)

\* attribute access client.<name>: the instance attribute bound at
\* construction, else the __getattr__ fallback
attribute_lookup(facade, commands, name) ==
    IF name \in DOMAIN facade.bound THEN facade.bound[name]
    ELSE getattr_fallback(commands, name)

(***************************************************************************)
(* State.                                                                  *)
(*   base_loaded  commands/base.py has been executed                       *)
(*   imported     the command modules whose import has finished            *)
(*   current      the command module being imported, or "none"             *)
(*   defined      how many class statements of current have been executed  *)
(*   commands     TL1CommandRegistry.commands: method name -> command class*)
(*   facades      the FlexILSClient instances constructed so far           *)
(*   inflight     the invocations waiting for the transport to return      *)
(*   last         the invocation that finished last, with its outcome      *)
(*   codec        the value under conversion in the codec specification    *)
(*   search       the interval search: its arguments, then its result       *)
(*   port         set_port_admin_state on one port and the device's state  *)
(*   poll         get_cli_script_result: the polls made and the outcome    *)
(***************************************************************************)
VARIABLES base_loaded, imported, current, defined, commands, facades, inflight, last, codec,
          search, port, poll

vars == <<base_loaded, imported, current, defined, commands, facades, inflight, last, codec,
          search, port, poll>>

\* the processes of the other specifications, at rest
Idle == [pc |-> "idle"]

\* most invocations that may wait for the transport at the same time
MaxInFlight == 2

\* the devices a facade is constructed for: (tnms_device_uuid, device_tid)
Devices ==
    {[device_uuid |-> "uuid-a", device_tid |-> "flex.aa00"],
     [device_uuid |-> "uuid-b", device_tid |-> "flex.bb11"]}

\* the invocations callers make: attribute name and keyword arguments
CallInputs ==
    {[name |-> "rtrv_sch", kwargs |-> <<>>],
     [name |-> "dlt_sch", kwargs |-> <<>>],
     [name |-> "rtrv_otelink", kwargs |-> <<>>]}

\* how the caller reaches the method: plain attribute access (the method
\* bound at construction, else the fallback), or the fallback itself
Paths == {"attribute", "__getattr__"}

\* texts the transport returns for a command
Responses ==
    {"M 100 COMPLD\n \"1-A-1:SCH:LABEL=x:IS,ACT\"\n;",
     "M 100 DENY\n IIAC\n;",
     "M 100 DENY\n /* ALREADY */\n;",
     "DENY: ALREADY\n;"}

NoCall == [kind |-> "none"]

Init ==
    /\ base_loaded = FALSE
    /\ imported = {}
    /\ current = "none"
    /\ defined = 0
    /\ commands = <<>>
    /\ facades = {}
    /\ inflight = EmptyBag
    /\ last = NoCall
    /\ codec = Idle
    /\ search = Idle
    /\ port = Idle
    /\ poll = Idle

ImportDone == imported = Modules

\* commands/__init__.py: importlib.import_module of the next module found
StartImport(m) ==
    /\ current = "none"
    /\ m \notin imported
    /\ current' = m
    /\ defined' = 0
    /\ UNCHANGED <<search, port, poll, base_loaded, imported, commands, facades, inflight, last, codec>>

\* `from .base import ...` of the first command module: the class statement
\* of TL1BaseCommand runs the metaclass
ImportBase ==
    /\ current # "none"
    /\ ~base_loaded
    /\ base_loaded' = TRUE
    /\ commands' = TL1CommandMeta_new(commands, "TL1BaseCommand")
    /\ UNCHANGED <<search, port, poll, imported, current, defined, facades, inflight, last, codec>>

\* the next class statement of the module being imported
DefineClass ==
    /\ current # "none"
    /\ base_loaded
    /\ defined < Len(ModuleClasses[current])
    /\ commands' = TL1CommandMeta_new(commands, ModuleClasses[current][defined + 1])
    /\ defined' = defined + 1
    /\ UNCHANGED <<search, port, poll, base_loaded, imported, current, facades, inflight, last, codec>>

FinishImport ==
    /\ current # "none"
    /\ base_loaded
    /\ defined = Len(ModuleClasses[current])
    /\ imported' = imported \cup {current}
    /\ current' = "none"
    /\ UNCHANGED <<search, port, poll, base_loaded, defined, commands, facades, inflight, last, codec>>

\* a facade constructed while command modules are still being imported
NewFacade_BeforeImport(d) ==
    /\ facades' = facades \cup
          {[device_uuid |-> d.device_uuid, device_tid |-> d.device_tid,
            bound |-> init_command_methods(commands)]}
    /\ UNCHANGED <<search, port, poll, base_loaded, imported, current, defined, commands, inflight, last, codec>>

\* FlexILSClient.__init__; client.py imports the commands package first, so
\* no facade exists before every command module is imported
NewFacade(d) ==
    /\ ImportDone
    /\ facades' = facades \cup
          {[device_uuid |-> d.device_uuid, device_tid |-> d.device_tid,
            bound |-> init_command_methods(commands)]}
    /\ UNCHANGED <<search, port, poll, base_loaded, imported, current, defined, commands, inflight, last, codec>>

\* an invocation that ended before the transport was called
EarlyFailure(f, path, input, error) ==
    [kind |-> "call", device_uuid |-> f.device_uuid, device_tid |-> f.device_tid,
     path |-> path, name |-> input.name, kwargs |-> input.kwargs, cls |-> "None",
     command |-> "", ctag |-> "", sent |-> 0, response |-> "",
     outcome |-> Error(error)]

\* client.<name>(**kwargs) up to the transport call: resolve the method,
\* build the command (_execute_command), serialize it and hand it to the
\* transport (execute, client._execute_raw_command)
Invoke(f, path, input) ==
    LET cls_name == IF path = "attribute" THEN attribute_lookup(f, commands, input.name)
                    ELSE getattr_fallback(commands, input.name)
        cls == ClassNamed(cls_name)
        attrs == BuildAttrs(cls, f.device_tid, input.kwargs)
        call == [device_uuid |-> f.device_uuid, device_tid |-> f.device_tid,
                 path |-> path, name |-> input.name, kwargs |-> input.kwargs,
                 cls |-> cls_name, command |-> ToStringOf(cls, attrs),
                 ctag |-> attrs["ctag"].v, sent |-> 1]
    IN  /\ f \in facades
        /\ BagCardinality(inflight) < MaxInFlight
        /\ IF cls_name = "None"
           THEN /\ last' = EarlyFailure(f, path, input, "AttributeError")
                /\ UNCHANGED inflight
           ELSE IF MissingRequired(attrs) # {}
           THEN /\ last' = EarlyFailure(f, path, input, "ValidationError")
                /\ UNCHANGED inflight
           ELSE IF to_string_error(cls, attrs) # ""
           THEN /\ last' = EarlyFailure(f, path, input, to_string_error(cls, attrs))
                /\ UNCHANGED inflight
           ELSE /\ inflight' = inflight (+) SetToBag({call})
                /\ UNCHANGED last
        /\ UNCHANGED <<search, port, poll, base_loaded, imported, current, defined, commands, facades, codec>>

\* the record of a finished invocation
Finished(call, response_str, outcome) ==
    [kind |-> "call", device_uuid |-> call.device_uuid,
     device_tid |-> call.device_tid, path |-> call.path,
     name |-> call.name, kwargs |-> call.kwargs, cls |-> call.cls,
     command |-> call.command, ctag |-> call.ctag, sent |-> call.sent,
     response |-> response_str, outcome |-> outcome]

\* an execute that sends a denied command a second time
Return_Retry(call, response_str) ==
    /\ BagIn(call, inflight)
    /\ IF IsDenied(response_str) /\ call.sent < 2
       THEN /\ inflight' = (inflight (-) SetToBag({call}))
                              (+) SetToBag({[call EXCEPT !.sent = call.sent + 1]})
            /\ UNCHANGED last
       ELSE /\ inflight' = inflight (-) SetToBag({call})
            /\ last' = Finished(call, response_str,
                           execute_result(call.device_uuid, call.command, response_str,
                               call.ctag, ResponseNamed(ClassNamed(call.cls).response_class)))
    /\ UNCHANGED <<search, port, poll, base_loaded, imported, current, defined, commands, facades, codec>>

\* an execute that reads the command and device of whichever invocation is
\* waiting, as if they were kept in one shared slot
Return_SharedCommand(call, response_str) ==
    LET other == CHOOSE c \in BagToSet(inflight) : TRUE
    IN  /\ BagIn(call, inflight)
        /\ inflight' = inflight (-) SetToBag({call})
        /\ last' = Finished(call, response_str,
                       execute_result(other.device_uuid, other.command, response_str,
                           other.ctag, ResponseNamed(ClassNamed(other.cls).response_class)))
        /\ UNCHANGED <<search, port, poll, base_loaded, imported, current, defined, commands, facades, codec>>

\* an execute that parses the response before it scans it for DENY
Return_ParseFirst(call, response_str) ==
    LET parsed == from_raw_text(response_str, call.ctag,
                      ResponseNamed(ClassNamed(call.cls).response_class))
    IN  /\ BagIn(call, inflight)
        /\ inflight' = inflight (-) SetToBag({call})
        /\ last' = Finished(call, response_str,
                       IF parsed.kind = "error" THEN parsed
                       ELSE execute_result(call.device_uuid, call.command, response_str,
                                call.ctag, ResponseNamed(ClassNamed(call.cls).response_class)))
        /\ UNCHANGED <<search, port, poll, base_loaded, imported, current, defined, commands, facades, codec>>

\* the transport returns response_str for a waiting invocation: the rest of
\* execute (DENY scan, parse)
Return(call, response_str) ==
    /\ BagIn(call, inflight)
    /\ inflight' = inflight (-) SetToBag({call})
    /\ last' = Finished(call, response_str,
                   execute_result(call.device_uuid, call.command, response_str,
                       call.ctag, ResponseNamed(ClassNamed(call.cls).response_class)))
    /\ UNCHANGED <<search, port, poll, base_loaded, imported, current, defined, commands, facades, codec>>

Next ==
    \/ \E m \in Modules : StartImport(m)
    \/ ImportBase
    \/ DefineClass
    \/ FinishImport
    \/ \E d \in Devices : NewFacade(d)
    \/ \E f \in facades, path \in Paths, input \in CallInputs : Invoke(f, path, input)
    \/ \E call \in BagToSet(inflight), r \in Responses : Return(call, r)

Spec == Init /\ [][Next]_vars

(***************************************************************************)
(* The invocations of a process whose import of the commands package has   *)
(* finished: execute, step by step, over more arguments and responses.     *)
(***************************************************************************)

\* the registry once every command module is imported: of two classes of a
\* module with one method name, the one defined later is registered
ImportedRegistry ==
    LET made == UNION {{<<m, i>> : i \in 1..Len(ModuleClasses[m])} : m \in Modules}
        name(d) == method_name(ClassNamed(ModuleClasses[d[1]][d[2]]))
        final == {d \in made : \A o \in made : name(o) = name(d) => o[2] <= d[2]}
    IN  [n \in {name(d) : d \in made} |->
            LET d == CHOOSE d \in final : name(d) = n IN ModuleClasses[d[1]][d[2]]]

\* invocations with the default CTAG, a CTAG of the caller, and arguments
\* that fail validation
ExecInputs ==
    CallInputs \cup {[name |-> "rtrv_sch", kwargs |-> ("ctag" :> Str("42"))]}

\* responses with and without the CTAG of the request
ExecResponses ==
    Responses \cup {"M 42 DENY\n IIAC\n;",
                    "M 100 COMPLD\n \"1-A-1:SCH:LABEL=DENY-LIST:IS,ACT\"\n;"}

ExecInit ==
    /\ base_loaded = TRUE
    /\ imported = Modules
    /\ current = "none"
    /\ defined = Len(ModuleClasses["sch"])
    /\ commands = ImportedRegistry
    /\ facades = {}
    /\ inflight = EmptyBag
    /\ last = NoCall
    /\ codec = Idle
    /\ search = Idle
    /\ port = Idle
    /\ poll = Idle

ExecNext ==
    \/ \E d \in Devices : NewFacade(d)
    \/ \E f \in facades, path \in Paths, input \in ExecInputs : Invoke(f, path, input)
    \/ \E call \in BagToSet(inflight), r \in ExecResponses : Return(call, r)

ExecSpec == ExecInit /\ [][ExecNext]_vars

(***************************************************************************)
(* Codec specification: one command at a time is constructed, serialized,  *)
(* answered by the transport and parsed (the body of execute without the   *)
(* facade around it).  codec.pc is the position in that pipeline.          *)
(***************************************************************************)
\* the commands constructed: class and keyword arguments
CodecCommands ==
    {[cls |-> "RetrieveSch", kwargs |-> <<>>],
     [cls |-> "RetrieveSch", kwargs |-> ("ctag" :> Str("42"))],
     [cls |-> "DeleteSch", kwargs |-> ("aid" :> Str("1-A-1-L1-1"))],
     [cls |-> "DeleteSch", kwargs |-> <<>>],
     [cls |-> "RetrieveOsnc", kwargs |-> ("oelaid" :> Str("7"))],
     [cls |-> "EditOel", kwargs |-> ("aid" :> Str("1-A-1") @@ "label" :> Str("x"))],
     [cls |-> "EditOel", kwargs |->
         ("aid" :> Str("1-A-1") @@ "compcardtypelist" :> List(<<"a", "b">>))],
     [cls |-> "EditOel", kwargs |->
         ("aid" :> Str("1-A-1") @@ "compcardtypelist" :> List(<<"a">>))],
     [cls |-> "EditOel", kwargs |->
         ("aid" :> Str("1-A-1") @@ "label" :> Str("x") @@ "oelsource" :> Str("NPS")
          @@ "compcardtypelist" :> List(<<"a", "b", "c">>) @@ "is_oos_ains" :> Str("IS"))],
     [cls |-> "EnterOel", kwargs |->
         ("aid" :> Str("1-A-1") @@ "label" :> Str("x") @@ "srcnodename" :> Str("aa00")
          @@ "dstnodename" :> Str("bb11") @@ "validfrangelist" :> List(<<"1", "2">>)
          @@ "explicitroute" :> Lol(<< <<"aa00", "1-L1", "bb11", "2-L1">>,
                                       <<"bb11", "3-L1", "cc22", "4-L1">> >>))],
     [cls |-> "EnterOel", kwargs |->
         ("aid" :> Str("1-A-1") @@ "label" :> Str("x") @@ "srcnodename" :> Str("aa00")
          @@ "dstnodename" :> Str("bb11") @@ "validfrangelist" :> List(<<"1", "2">>)
          @@ "explicitroute" :> Lol(<< <<"aa00", "1-L1", "bb11", "2-L1">> >>))],
     \* no hop in the route: explicitroute=[]
     [cls |-> "EnterOel", kwargs |->
         ("aid" :> Str("1-A-1") @@ "label" :> Str("x") @@ "srcnodename" :> Str("aa00")
          @@ "dstnodename" :> Str("bb11") @@ "validfrangelist" :> List(<<"1", "2">>)
          @@ "explicitroute" :> List(<<>>))],
     \* constructed directly, with no target identifier: RetrieveOts(aid=...)
     [cls |-> "RetrieveOts", kwargs |-> ("tid" :> None @@ "aid" :> Str("1-A-1-L1"))],
     [cls |-> "RetrieveOts", kwargs |-> ("aid" :> Str("1-A-1-L1") @@ "ctag" :> Str("42"))],
     [cls |-> "RetrieveOsnc", kwargs |-> ("oelaid" :> Str("7:1"))],
     [cls |-> "RetrieveOcrs", kwargs |-> <<>>],
     [cls |-> "RetrieveOcrs", kwargs |-> ("fromaid" :> Str("1-A-1"))],
     [cls |-> "RetrieveOcrs", kwargs |-> ("toaid" :> Str("1-A-2"))],
     [cls |-> "RetrieveOcrs", kwargs |->
         ("fromaid" :> Str("1-A-1") @@ "toaid" :> Str("1-A-2")
          @@ "chanplantype" :> Str("FLEX-CHPLAN-1") @@ "oelaid" :> Str("7"))],
     [cls |-> "RetrieveEqpt", kwargs |-> ("tid" :> None)],
     [cls |-> "RetrieveScg", kwargs |-> ("type" :> Str("FBM"))],
     [cls |-> "MaintenanceSch", kwargs |-> ("aid" :> Str("1-A-1-L1-1"))],
     [cls |-> "IntoAdminMaintenance", kwargs |-> ("aid" :> Str("1-A-1-L1-1"))],
     [cls |-> "IntoAdminMaintenance", kwargs |->
         ("aidtype" :> Str("SCH") @@ "aid" :> Str("1-A-1-L1-1") @@ "mode" :> Str("FRCD"))],
     [cls |-> "IntoAdminMaintenance", kwargs |->
         ("aidtype" :> Str("SCH") @@ "aid" :> Str("1-A-1-L1-1") @@ "mode" :> Str("")
          @@ "state" :> Str(""))],
     [cls |-> "OutofAdminMaintenance", kwargs |-> ("aidtype" :> Str("SCH"))],
     [cls |-> "OutofAdminMaintenance", kwargs |->
         ("aidtype" :> Str("SCH") @@ "aid" :> Str("1-A-1-L1-1"))]}

\* the device the codec's commands are built for
CodecDevice == [device_uuid |-> "uuid-a", device_tid |-> "flex.aa00"]

\* fixed texts the transport may return
CodecResponses ==
    {"M 100 COMPLD\n \"1-A-1:SCH:LABEL=x:IS,ACT\"\n;",
     "M 100 DENY\n /* ALREADY */\n;",
     "M COMPLD\n;",
     "M 100\n;",
     "M 100 ;",
     "M 100 COMPLD\n   \"AID=\\\"a,b:c\\\",LABEL=\\\"x:y\\\"\"\n;",
     "M 100 COMPLD\n   \"AID=\"a,b:c\",LABEL=\"x:y\"\"\n;",
     "M 100 COMPLD\n   \"A=1&2&3,D=\"p&q\",B=1&2&-3&4,C=5\"\n;",
     "M 100 PRTL\n;",
     "M 100 NOSUCH\n;",
     "   node100 26-01-01\nM  100 COMPLD\n   \"A=1\"\n;",
     "M 100 COMPLD\n   \"AID=1-A-100\"\n;",
     "M 100 COMPLD\n   \"1-A-1::TYPE=x,ABC:IS\"\n   \"1-A-2:SCH\"\n;"}

\* the named-parameter section of a serialized command: the seventh
\* ':'-separated section of the wire text without its final ';'
NamedParamText(wire) ==
    LET sections == Split(SubSeq(wire, 1, Len(wire) - 1), ":")
    IN  IF Len(sections) >= 7 THEN sections[7] ELSE ""

\* a completed response that returns the named parameters of the request as
\* one quoted record line
EchoResponse(wire, tag) ==
    "M " \o tag \o " COMPLD\n   \"" \o NamedParamText(wire) \o "\"\n;"

CodecInit ==
    /\ base_loaded = FALSE
    /\ imported = {}
    /\ current = "none"
    /\ defined = 0
    /\ commands = <<>>
    /\ facades = {}
    /\ inflight = EmptyBag
    /\ last = NoCall
    /\ search = Idle
    /\ port = Idle
    /\ poll = Idle
    /\ codec \in {[pc |-> "command", cls |-> c.cls, kwargs |-> c.kwargs] : c \in CodecCommands}

CodecAttrs(c) == BuildAttrs(ClassNamed(c.cls), CodecDevice.device_tid, c.kwargs)

\* command_cls(tid=..., **kwargs) and command.to_string()
Serialize ==
    /\ codec.pc = "command"
    /\ codec' =
         IF MissingRequired(CodecAttrs(codec)) # {}
         THEN [pc |-> "failed", cls |-> codec.cls, kwargs |-> codec.kwargs,
               error |-> "ValidationError"]
         ELSE IF to_string_error(ClassNamed(codec.cls), CodecAttrs(codec)) # ""
         THEN [pc |-> "failed", cls |-> codec.cls, kwargs |-> codec.kwargs,
               error |-> to_string_error(ClassNamed(codec.cls), CodecAttrs(codec))]
         ELSE [pc |-> "wire", cls |-> codec.cls, kwargs |-> codec.kwargs,
               ctag |-> CodecAttrs(codec)["ctag"].v,
               wire |-> ToStringOf(ClassNamed(codec.cls), CodecAttrs(codec))]
    /\ UNCHANGED <<search, port, poll, base_loaded, imported, current, defined, commands, facades, inflight, last>>

\* the transport returns one of the fixed texts
Respond(r) ==
    /\ codec.pc = "wire"
    /\ codec' = [pc |-> "response", cls |-> codec.cls, kwargs |-> codec.kwargs,
                 ctag |-> codec.ctag, wire |-> codec.wire, echo |-> FALSE, response |-> r]
    /\ UNCHANGED <<search, port, poll, base_loaded, imported, current, defined, commands, facades, inflight, last>>

\* the transport returns the request's named parameters as a record
RespondEcho ==
    /\ codec.pc = "wire"
    /\ codec' = [pc |-> "response", cls |-> codec.cls, kwargs |-> codec.kwargs,
                 ctag |-> codec.ctag, wire |-> codec.wire, echo |-> TRUE,
                 response |-> EchoResponse(codec.wire, codec.ctag)]
    /\ UNCHANGED <<search, port, poll, base_loaded, imported, current, defined, commands, facades, inflight, last>>

\* self.response_class.from_raw_text(response_str, self.ctag)
Parse ==
    /\ codec.pc = "response"
    /\ codec' = [pc |-> "parsed", cls |-> codec.cls, kwargs |-> codec.kwargs,
                 ctag |-> codec.ctag, wire |-> codec.wire, echo |-> codec.echo,
                 response |-> codec.response,
                 result |-> from_raw_text(codec.response, codec.ctag,
                                ResponseNamed(ClassNamed(codec.cls).response_class))]
    /\ UNCHANGED <<search, port, poll, base_loaded, imported, current, defined, commands, facades, inflight, last>>

CodecNext ==
    \/ Serialize
    \/ \E r \in CodecResponses : Respond(r)
    \/ RespondEcho
    \/ Parse

CodecSpec == CodecInit /\ [][CodecNext]_vars

(***************************************************************************)
(* Properties.                                                             *)
(***************************************************************************)
\* the last finished invocation reached the transport
LastWasSent == last.kind = "call" /\ last.sent > 0

IsCommandDenied(outcome) ==
    outcome.kind = "error" /\ outcome.error = "TL1CommandDeniedError"

HasDenyAndAlready(response_str) ==
    Contains(response_str, DENY) /\ Contains(response_str, ALREADY)

RECURSIVE NamedOfParts(_)
NamedOfParts(parts) ==
    IF parts = <<>> THEN {}
    ELSE LET part == Strip(parts[1], {"[", "]", "<", ">"})
         IN  (IF Contains(part, "=") THEN {Split(part, "=")[1]} ELSE {})
             \cup NamedOfParts(Tail(parts))

RECURSIVE NamedOfSections(_)
NamedOfSections(sections) ==
    IF sections = <<>> THEN {}
    ELSE NamedOfParts(Split(sections[1], ",")) \cup NamedOfSections(Tail(sections))

NamedParams(help_text) == NamedOfSections(Tail(Split(help_text, ":")))

AttrKey(name) == Replace(Lower(name), "-", "_")

SameValue(a, b) == a.kind = b.kind /\ a.v = b.v

\* C3 (as claimed): serializing a command, returning its named-parameter
\* text as a quoted record of a tagged COMPLD response and parsing it (with
\* the default rename hook) yields one record that holds every named
\* parameter that had a value, with the same value of the same shape.
C3_RoundTrip ==
    (/\ codec.pc = "parsed"
     /\ codec.echo
     /\ ClassNamed(codec.cls).response_class = "TL1BaseResponse")
    => /\ codec.result.kind = "envelope"
       /\ Len(codec.result.parsed_data) = 1
       /\ \A name \in NamedParams(ClassNamed(codec.cls).help_text) :
             LET value == Getattr(CodecAttrs(codec), AttrKey(name))
                 record == codec.result.parsed_data[1]
             IN  value # None =>
                    /\ name \in DOMAIN record
                    /\ SameValue(record[name], value)

\* C4 (as claimed): a registration never replaces the entry that is
\* already stored under its method name (the code raises nothing and logs
\* nothing, so any replacement is silent).
C4_NoSilentShadowing ==
    [][\A n \in DOMAIN commands :
          n \in DOMAIN commands' /\ commands'[n] = commands[n]]_vars

\* C5 (as claimed): once every command module is imported, each shipped
\* command class is the registry entry of its own derived method name, so
\* the names are pairwise distinct and there is one entry per class.
C5_UniqueMethodNames ==
    ImportDone =>
        /\ \A c \in CommandClasses :
              method_name(c) \in DOMAIN commands /\ commands[method_name(c)] = c.name
        /\ Cardinality(DOMAIN commands) = Cardinality(CommandClasses)

\* the invocations on record: those waiting and the last finished one
SentCalls ==
    {[device_uuid |-> c.device_uuid, path |-> c.path, name |-> c.name,
      kwargs |-> c.kwargs, cls |-> c.cls, command |-> c.command] :
        c \in BagToSet(inflight)}
    \cup (IF LastWasSent
          THEN {[device_uuid |-> last.device_uuid, path |-> last.path,
                 name |-> last.name, kwargs |-> last.kwargs, cls |-> last.cls,
                 command |-> last.command]}
          ELSE {})

\* what an invocation resolved through path on facade f yields when the
\* transport answers response_str: its serialized request and its outcome
InvocationVia(f, path, input, response_str) ==
    LET cls_name == IF path = "attribute" THEN attribute_lookup(f, commands, input.name)
                    ELSE getattr_fallback(commands, input.name)
        cls == ClassNamed(cls_name)
        attrs == BuildAttrs(cls, f.device_tid, input.kwargs)
        command == ToStringOf(cls, attrs)
    IN  [cls |-> cls_name, command |-> command,
         outcome |-> execute_result(f.device_uuid, command, response_str,
                         attrs["ctag"].v, ResponseNamed(cls.response_class))]

IsolatedResults ==
    /\ \A c \in BagToSet(inflight) :
          /\ c.cls = RegistryGet(commands, c.name)
          /\ c.command = ToStringOf(ClassNamed(c.cls),
                             BuildAttrs(ClassNamed(c.cls), c.device_tid, c.kwargs))
    /\ LastWasSent =>
          /\ last.command = ToStringOf(ClassNamed(last.cls),
                                BuildAttrs(ClassNamed(last.cls), last.device_tid, last.kwargs))
          /\ last.outcome = execute_result(last.device_uuid, last.command, last.response,
                                last.ctag,
                                ResponseNamed(ClassNamed(last.cls).response_class))

HasStatusWord(message, tag) ==
    /\ Contains(message, tag)
    /\ MatchStatusWord(Slice(message, RFind(message, tag) + Len(tag))) # ""

\* C9 (as claimed): parsing a response that lacks the tag, or that has the
\* tag with no status word after it, fails with ProtocolError and with
\* nothing else.
C9_MalformedIsProtocolError ==
    (codec.pc = "parsed" /\ ~HasStatusWord(codec.response, codec.ctag))
    => codec.result = Error(ProtocolError)

\* C10: an invocation of a name that is not in the registry fails with
\* UnknownCommandError (AttributeError), with nothing serialized and no call
\* to the transport; no such invocation ever waits for the transport.
C10_UnknownCommand ==
    /\ \A c \in BagToSet(inflight) : c.name \in DOMAIN commands
    /\ (last.kind = "call" /\ last.name \notin DOMAIN commands) =>
          /\ last.outcome = Error(UnknownCommandError)
          /\ last.command = ""
          /\ last.sent = 0

\* C10 witness: rtrv_otelink, which no shipped class registers, was
\* requested through the fallback
C10_Witness ==
    /\ last.kind = "call"
    /\ last.name = "rtrv_otelink"
    /\ last.path = "__getattr__"
    /\ last.outcome = Error(UnknownCommandError)

\* the codec has parsed a response into an envelope with the default
\* rename hook
ParsedPlain ==
    /\ codec.pc = "parsed"
    /\ codec.result.kind = "envelope"
    /\ ClassNamed(codec.cls).response_class = "TL1BaseResponse"

\* C11 (as claimed): a record line holding AID="a,b:c",LABEL="x:y" parses
\* into exactly two named fields, AID = a,b:c and LABEL = x:y, quotes removed
\* (the quotes written plainly or with a backslash before each).
C11_QuotedValuesKept ==
    (/\ codec.pc = "parsed"
     /\ ClassNamed(codec.cls).response_class = "TL1BaseResponse"
     /\ Contains(codec.response, "a,b:c"))
    => /\ codec.result.kind = "envelope"
       /\ codec.result.parsed_data =
             << ("AID" :> Str("a,b:c")) @@ ("LABEL" :> Str("x:y")) >>

\* the decoding the field value raw must have: list of lists on "&-", flat
\* list on "&", scalar otherwise
ExpectedDecoding(raw) ==
    IF Contains(raw, "&-")
    THEN LET chunks == Split(raw, "&-")
         IN  Lol([k \in 1..Len(chunks) |-> Split(chunks[k], "&")])
    ELSE IF Contains(raw, "&") THEN List(Split(raw, "&"))
    ELSE Str(raw)

IsPositionalKey(key) == StartsWith(key, "positional_param_")

\* C12: every named field of a parsed record is the decoding of its text:
\* a list of lists if the text contains "&-" (split on "&-", each chunk on
\* "&"), a flat list if it contains "&" only, a scalar otherwise; the record
\* A=1&2&3,D="p&q",B=1&2&-3&4,C=5 gives A = [1,2,3], B = [[1,2],[3,4]],
\* C = 5 and D = [p,q].
C12_ListDecoding ==
    ParsedPlain =>
        /\ \A i \in 1..Len(codec.result.parsed_data) :
              LET record == codec.result.parsed_data[i]
              IN  \A key \in DOMAIN record :
                      ~IsPositionalKey(key) =>
                          record[key] = ExpectedDecoding(ValueText(record[key]))
        /\ Contains(codec.response, "B=1&2&-3&4,C=5") =>
              codec.result.parsed_data =
                 << ("A" :> List(<<"1", "2", "3">>))
                    @@ ("B" :> Lol(<< <<"1", "2">>, <<"3", "4">> >>))
                    @@ ("C" :> Str("5"))
                    @@ ("D" :> List(<<"p", "q">>)) >>

\* C12 witness: the record with a flat list and a list of lists was parsed
C12_Witness ==
    /\ ParsedPlain
    /\ Len(codec.result.parsed_data) = 1
    /\ "B" \in DOMAIN codec.result.parsed_data[1]
    /\ codec.result.parsed_data[1]["B"].kind = "lol"
    /\ codec.result.parsed_data[1]["A"].kind = "list"
    /\ codec.result.parsed_data[1]["C"].kind = "str"

\* the codec holds a serialized command
HasWire == codec.pc \in {"wire", "response", "parsed"}

\* the ':'-separated sections of the serialized command without its ';'
WireSections == Split(SubSeq(codec.wire, 1, Len(codec.wire) - 1), ":")

TemplateSections == Split(ClassNamed(codec.cls).help_text, ":")

\* the serialized command has one section per template section
Aligned == HasWire /\ Len(WireSections) = Len(TemplateSections)

\* the tokens of a template section and their classification (base.py 186-198)
SectionTokens(rawsection) ==
    Split(Replace(Replace(rawsection, ",]", "],"), "[,", ",["), ",")

TokenText(tok) == Strip(tok, {"[", "]", "<", ">"})

IsNamedToken(tok) == Contains(TokenText(tok), "=")

IsOptionalToken(tok) == StartsWith(tok, "[") /\ EndsWith(tok, "]")

TokenName(tok) == Split(TokenText(tok), "=")[1]

TokenKey(tok) ==
    IF IsNamedToken(tok) THEN AttrKey(TokenName(tok))
    ELSE Replace(Replace(Lower(TokenText(tok)), "-", "_"), "|", "_")

TokenPresent(tok) == Getattr(CodecAttrs(codec), TokenKey(tok)) # None

NoStrayComma(out) ==
    ~StartsWith(out, ",") /\ ~EndsWith(out, ",") /\ ~Contains(out, ",,")

\* C13: a named field with no value leaves no text in its section: no
\* column of the section starts with its NAME=, and the section has no
\* leading, trailing or doubled comma.
C13_AbsentNamedLeavesNoTrace ==
    Aligned =>
        \A s \in 2..Len(TemplateSections) :
            LET toks == SectionTokens(TemplateSections[s])
                out == WireSections[s]
                cols == Split(out, ",")
                absent == {k \in 1..Len(toks) :
                              /\ TokenText(toks[k]) # ""
                              /\ IsNamedToken(toks[k])
                              /\ ~TokenPresent(toks[k])}
            IN  absent # {} =>
                   /\ \A k \in absent : \A c \in 1..Len(cols) :
                         ~StartsWith(cols[c], TokenName(toks[k]) \o "=")
                   /\ NoStrayComma(out)

\* C13 witness: RetrieveOcrs with CHANPLANTYPE and OELAID given and SIGTYPE,
\* which stands between them in the template, absent
C13_Witness ==
    /\ codec.pc = "wire"
    /\ codec.cls = "RetrieveOcrs"
    /\ Contains(codec.wire, ":CHANPLANTYPE=FLEX-CHPLAN-1,OELAID=7:")

\* the columns a section must show: its required positional tokens and its
\* other tokens that have a value
ExpectedColumns(rawsection) ==
    LET toks == SectionTokens(rawsection)
    IN  Cardinality({k \in 1..Len(toks) :
            /\ TokenText(toks[k]) # ""
            /\ \/ TokenPresent(toks[k])
               \/ ~IsNamedToken(toks[k]) /\ ~IsOptionalToken(toks[k])})

\* no token of the section has a value
NothingPresent(rawsection) ==
    LET toks == SectionTokens(rawsection)
    IN  \A k \in 1..Len(toks) : TokenText(toks[k]) # "" => ~TokenPresent(toks[k])

Commas(out) == Len(Split(out, ",")) - 1

CommandHead == ClassNamed(codec.cls).verb \o "-" \o ClassNamed(codec.cls).modifier

\* the ':' characters inside the values of the command's fields
ColonsInValues ==
    LET attrs == CodecAttrs(codec)
        withColon == {k \in DOMAIN attrs : attrs[k] # None /\ Contains(ValueText(attrs[k]), ":")}
    IN  IF withColon = {} THEN 0
        ELSE Cardinality({<<k, i>> \in withColon \X (0..Len(codec.wire)) :
                             i \in Occurrences(ValueText(attrs[k]), ":")})

IsRetrieveOtsExample ==
    /\ codec.cls = "RetrieveOts"
    /\ Getattr(CodecAttrs(codec), "tid") = None
    /\ Getattr(CodecAttrs(codec), "aid") = Str("1-A-1-L1")

C16_RequiredEnforced ==
    HasWire =>
        /\ MissingRequired(CodecAttrs(codec)) = {}
        /\ ClassNamed(codec.cls).own_to_string =>
              Getattr(CodecAttrs(codec), "aidtype") # None

\* the word after the last occurrence of the tag in the response
StatusWordAfterLastTag ==
    LET at == Max(Occurrences(codec.response, codec.ctag))
    IN  MatchStatusWord(Slice(codec.response, at + Len(codec.ctag)))

\* C17 (as claimed): a tagged response whose status word is neither COMPLD
\* nor DENY is parsed into an envelope whose status is that word unchanged.
C17_VendorStatusPassesThrough ==
    (/\ codec.pc = "parsed"
     /\ Contains(codec.response, codec.ctag)
     /\ StatusWordAfterLastTag \notin {"", COMPLD, DENY})
    => /\ codec.result.kind = "envelope"
       /\ codec.result.status = StatusWordAfterLastTag

\* C20: the status of an envelope is the first word after the last
\* occurrence of the tag, its raw body is the response from the first
\* occurrence of the tag on, and its records are those of the lines of that
\* body after the first; the response with the tag in its header line and
\* in its status line gives status COMPLD, the body from the header's tag
\* on and the one record A=1.
C20_LastTagStatusFirstTagBody ==
    (codec.pc = "parsed" /\ codec.result.kind = "envelope") =>
        LET first == Min(Occurrences(codec.response, codec.ctag))
        IN  /\ codec.result.status = StatusWordAfterLastTag
            /\ codec.result.raw_data = Slice(codec.response, first)
            /\ ClassNamed(codec.cls).response_class = "TL1BaseResponse" =>
                  codec.result.parsed_data =
                     ParseLines(Tail(SplitLines(StripWs(codec.result.raw_data))))
            /\ (Contains(codec.response, "node100") /\ ParsedPlain) =>
                  /\ codec.result.status = COMPLD
                  /\ codec.result.raw_data = "100 26-01-01\nM  100 COMPLD\n   \"A=1\"\n;"
                  /\ codec.result.parsed_data = << ("A" :> Str("1")) >>

\* C20 witness: a response that holds the tag twice was parsed
C20_Witness ==
    /\ ParsedPlain
    /\ Cardinality(Occurrences(codec.response, codec.ctag)) = 2
    /\ codec.result.status = COMPLD
    /\ Len(codec.result.parsed_data) = 1

\* C18 (as claimed): every failure of an invocation that reached the
\* transport carries the command string that was sent and the raw response:
\* CommandDeniedError as its device id, command and response, any other
\* error in its text.
C18_FailuresCarryCommandAndResponse ==
    (LastWasSent /\ last.outcome.kind = "error") =>
        IF IsCommandDenied(last.outcome)
        THEN /\ last.outcome.device_uuid = last.device_uuid
             /\ last.outcome.command = last.command
             /\ last.outcome.response = last.response
        ELSE /\ Contains(ErrorText(last.response, last.ctag), last.command)
             /\ Contains(ErrorText(last.response, last.ctag), last.response)

\* the fourth ':'-separated section of a serialized command: its CTAG
EmittedCtag(command) == Split(command, ":")[4]

ImportEndsInImportedRegistry ==
    ImportDone => /\ commands = ImportedRegistry
                  /\ base_loaded
                  /\ defined \in {Len(ModuleClasses[m]) : m \in Modules}

\* the named tokens of template section s whose field has a value
PresentNamed(s) ==
    LET toks == SectionTokens(TemplateSections[s])
    IN  {k \in 1..Len(toks) :
            /\ TokenText(toks[k]) # ""
            /\ IsNamedToken(toks[k])
            /\ TokenPresent(toks[k])}

\* NAME=value for a named token: the elements of a flat list joined with
\* '&', the inner lists of a list of lists joined with '&' and then '&-'
NamedColumn(tok) ==
    LET value == Getattr(CodecAttrs(codec), TokenKey(tok))
        text == IF value.kind = "lol"
                THEN Join([i \in 1..Len(value.v) |-> Join(value.v[i], "&")], "&-")
                ELSE IF value.kind = "list" THEN Join(value.v, "&")
                ELSE value.v
    IN  TokenName(tok) \o "=" \o text

\* C21 (as claimed): every command that passes validation is serialized,
\* and each named token whose field has a value shows as the column
\* NAME=value in its section, lists joined with '&' and lists of lists
\* with '&' inside '&-'.
C21_NamedValueEmitted ==
    (codec.pc # "command" /\ MissingRequired(CodecAttrs(codec)) = {}) =>
        /\ HasWire
        /\ Aligned =>
              \A s \in 2..Len(TemplateSections) : \A k \in PresentNamed(s) :
                  LET cols == Split(WireSections[s], ",")
                  IN  \E c \in 1..Len(cols) :
                          cols[c] = NamedColumn(SectionTokens(TemplateSections[s])[k])

\* token k of the section stands inside a bracket of the template: up to
\* its end more '[' than ']' were written before it
InBrackets(toks, k) ==
    LET upto == Join(SubSeq(toks, 1, k), ",")
        before == Join(SubSeq(toks, 1, k - 1), ",")
    IN  Cardinality(Occurrences(upto, "[")) > Cardinality(Occurrences(before, "]"))

\* the section has a positional token inside a bracket whose field has no value
AbsentOptionalPositional(rawsection) ==
    LET toks == SectionTokens(rawsection)
    IN  {k \in 1..Len(toks) :
            /\ TokenText(toks[k]) # ""
            /\ ~IsNamedToken(toks[k])
            /\ InBrackets(toks, k)
            /\ ~TokenPresent(toks[k])}

\* the columns of a section when every token inside a bracket is optional:
\* the tokens with a value and the positional tokens outside every bracket
ColumnsByBrackets(rawsection) ==
    LET toks == SectionTokens(rawsection)
    IN  Cardinality({k \in 1..Len(toks) :
            /\ TokenText(toks[k]) # ""
            /\ \/ TokenPresent(toks[k])
               \/ ~IsNamedToken(toks[k]) /\ ~InBrackets(toks, k)})

\* C22 (as claimed): a positional token inside a bracket, alone or with
\* other tokens, whose field has no value adds no column and no comma to
\* its section.
C22_OptionalPositionalEmitsNothing ==
    Aligned =>
        \A s \in 2..Len(TemplateSections) :
            AbsentOptionalPositional(TemplateSections[s]) # {} =>
                /\ NoStrayComma(WireSections[s])
                /\ Commas(WireSections[s]) =
                      Max({ColumnsByBrackets(TemplateSections[s]) - 1, 0})

\* the record lines of the parsed body: the lines after the first that
\* start with a quote, without the blanks, ';' and quotes around them
RecordLines ==
    LET lines == Tail(SplitLines(StripWs(codec.result.raw_data)))
        kept == SelectSeq(lines, LAMBDA l : Strip(l, {" ", ";"}) # ""
                                            /\ At(Strip(l, {" ", ";"}), 1) = "\"")
    IN  [n \in 1..Len(kept) |-> Strip(Strip(kept[n], {" ", ";"}), {"\""})]

\* the fields of a section: its ','-separated pieces
FieldsOf(section) == Split(section, ",")

\* the positions <<i, j>> of the fields of a record line that have no '=':
\* i counts the ':'-separated sections from 0, j the fields of the section
PositionalAt(line) ==
    LET sections == Split(line, ":")
    IN  UNION {{<<i, j>> : j \in {j \in 0..(Len(FieldsOf(sections[i + 1])) - 1) :
                                    ~Contains(FieldsOf(sections[i + 1])[j + 1], "=")}}
               : i \in {i \in 0..(Len(sections) - 1) : StripWs(sections[i + 1]) # ""}}

PositionalKey(i, j) == "positional_param_" \o IntToStr(i) \o "_" \o IntToStr(j)

\* the key under which the response class's hook leaves the value of key
RenamedKey(hooks, key) ==
    IF \E h \in 1..Len(hooks) : hooks[h][2] = key
    THEN hooks[CHOOSE h \in 1..Len(hooks) : hooks[h][2] = key][1]
    ELSE key

\* C23: in every parsed record the field without '=' at section i, comma
\* position j (both counted from 0 over all sections and all fields) is
\* found under positional_param_{i}_{j}, or under the name the response
\* class's rename hook gives that key; with the default hook the record has
\* these positional keys and no others.
C23_PositionalKeys ==
    (codec.pc = "parsed" /\ codec.result.kind = "envelope") =>
        LET hooks == ResponseNamed(ClassNamed(codec.cls).response_class).hooks
        IN  /\ Len(codec.result.parsed_data) = Len(RecordLines)
            /\ \A n \in 1..Len(RecordLines) :
                  Marks(RecordLines[n]) = {} =>
                     LET record == codec.result.parsed_data[n]
                         sections == Split(RecordLines[n], ":")
                         at == PositionalAt(RecordLines[n])
                     IN  /\ \A p \in at :
                               LET key == RenamedKey(hooks, PositionalKey(p[1], p[2]))
                               IN  /\ key \in DOMAIN record
                                   /\ record[key] =
                                        Str(StripWs(FieldsOf(sections[p[1] + 1])[p[2] + 1]))
                         /\ hooks = <<>> =>
                               \A key \in DOMAIN record :
                                   IsPositionalKey(key) =>
                                       \E p \in at : key = PositionalKey(p[1], p[2])

\* C23 witness: a record with an empty second section and a named field
\* before a positional one was parsed with the default hook
C23_Witness ==
    /\ ParsedPlain
    /\ Len(codec.result.parsed_data) = 2
    /\ codec.result.parsed_data[1] =
          ("positional_param_0_0" :> Str("1-A-1")) @@ ("TYPE" :> Str("x"))
          @@ ("positional_param_2_1" :> Str("ABC")) @@ ("positional_param_3_0" :> Str("IS"))

\* section 0 of the serialized command
EmittedHead == Split(codec.wire, ":")[1]

\* C24 (as claimed): section 0 of a serialized command is the declared
\* verb-modifier of its class; only a class with a wire-verb override field
\* (actual_verb) differs, and it emits that verb.
C24_HeadIsDeclaredOrOverride ==
    HasWire =>
        IF ClassNamed(codec.cls).actual_verb # ""
        THEN StartsWith(EmittedHead, ClassNamed(codec.cls).actual_verb \o "-")
        ELSE EmittedHead = CommandHead

\* C25 (as claimed): what a maintenance-state command's own to_string emits
\* after section 0 is what the general serializer emits for the same
\* template and field values.
C25_MaintenanceRefinesGeneral ==
    (HasWire /\ ClassNamed(codec.cls).own_to_string) =>
        Tail(WireSections) = EmitSections(Tail(TemplateSections), CodecAttrs(codec))

\* the attribute names the serializer of a class reads: one per template
\* token, and aidtype where the class's own to_string formats it
SerializerKeys(cls) ==
    LET sections == Tail(Split(cls.help_text, ":"))
    IN  UNION {{TokenKey(SectionTokens(sections[s])[k]) :
                   k \in 1..Len(SectionTokens(sections[s]))} : s \in 1..Len(sections)}
        \cup (IF cls.own_to_string THEN {"aidtype"} ELSE {})

\* C26 (as claimed): every declared field the caller sets to a value is
\* read by the serializer under its own name and its text stands in the
\* serialized command.
C26_NoParameterDropped ==
    HasWire =>
        \A k \in DOMAIN codec.kwargs :
            (k \in DOMAIN CodecAttrs(codec) /\ codec.kwargs[k] # None) =>
                /\ k \in SerializerKeys(ClassNamed(codec.cls))
                /\ Contains(codec.wire, ValueText(codec.kwargs[k]))

\* the completion status of the last response: the first word after the
\* last occurrence of the request's CTAG, "" when there is none
LastStatusWord ==
    IF RFind(last.response, last.ctag) = -1 THEN ""
    ELSE MatchStatusWord(Slice(last.response,
                               RFind(last.response, last.ctag) + Len(last.ctag)))

\* C27 (as claimed): an invocation whose response has the completion status
\* COMPLD does not end in CommandDeniedError.
C27_CompldNeverDenied ==
    (LastWasSent /\ LastStatusWord = COMPLD) => ~IsCommandDenied(last.outcome)

(***************************************************************************)
(* Interval search (utils/custom_types/frequencies.py): one call of        *)
(* disjoint_intervals_overlap_search on a sorted list of pairwise disjoint *)
(* half-open intervals and a target interval.                              *)
(***************************************************************************)
\* the frequencies of the model are 0..MaxFrequency, and a list holds at
\* most MaxIntervals intervals
MaxFrequency == 6
MaxIntervals == 3

\* the half-open intervals (start, end) with start < end
Passbands ==
    {p \in (0..MaxFrequency) \X (0..MaxFrequency) : p[1] < p[2]}

\* the sorted lists of pairwise disjoint intervals (port.used_passbands)
SortedDisjoint ==
    UNION {{l \in [1..n -> Passbands] : \A i \in 1..(n - 1) : l[i][2] <= l[i + 1][1]}
           : n \in 0..MaxIntervals}

Interval(i) == [kind |-> "interval", v |-> i]

\* the while loop of disjoint_intervals_overlap_search from (low, high) on
RECURSIVE overlap_search_from(_, _, _, _)
overlap_search_from(intervals, target_interval, low, high) ==
    IF low > high THEN None
    ELSE LET mid == (low + high) \div 2
             current_interval == intervals[mid + 1]
         IN  IF /\ current_interval[1] < target_interval[2]
                /\ target_interval[1] < current_interval[2]
             THEN Interval(current_interval)
             ELSE IF current_interval[1] > target_interval[2]
             THEN overlap_search_from(intervals, target_interval, low, mid - 1)
             ELSE overlap_search_from(intervals, target_interval, mid + 1, high)

disjoint_intervals_overlap_search(intervals, target_interval) ==
    overlap_search_from(intervals, target_interval, 0, Len(intervals) - 1)

SearchInit ==
    /\ base_loaded = FALSE
    /\ imported = {}
    /\ current = "none"
    /\ defined = 0
    /\ commands = <<>>
    /\ facades = {}
    /\ inflight = EmptyBag
    /\ last = NoCall
    /\ codec = Idle
    /\ port = Idle
    /\ poll = Idle
    /\ search \in {[pc |-> "call", intervals |-> l, target_interval |-> t] :
                      l \in SortedDisjoint, t \in Passbands}

\* does_fiber_pass_exclusion: the call and its return value
Search ==
    /\ search.pc = "call"
    /\ search' = [pc |-> "returned", intervals |-> search.intervals,
                  target_interval |-> search.target_interval,
                  result |-> disjoint_intervals_overlap_search(
                                 search.intervals, search.target_interval)]
    /\ UNCHANGED <<base_loaded, imported, current, defined, commands, facades,
                   inflight, last, codec, port, poll>>

SearchNext == Search

SearchSpec == SearchInit /\ [][SearchNext]_vars

\* two half-open intervals overlap: they share a frequency
Overlap(a, b) == \E f \in 0..MaxFrequency : a[1] <= f /\ f < a[2] /\ b[1] <= f /\ f < b[2]

\* the intervals of the list that overlap the target
Overlapping ==
    {i \in 1..Len(search.intervals) : Overlap(search.intervals[i], search.target_interval)}

\* C28 (as claimed): the search returns an interval of the list that
\* overlaps the target whenever the list has one, and None only when it has
\* none.
C28_SearchFindsOverlap ==
    search.pc = "returned" =>
        IF Overlapping = {} THEN search.result = None
        ELSE /\ search.result.kind = "interval"
             /\ \E i \in Overlapping : search.result.v = search.intervals[i]

(***************************************************************************)
(* set_port_admin_state on a FlexILS port                                  *)
(* (products/services/optical_device_port.py), one command at a time,      *)
(* against a device whose port follows the machine of the docstring:       *)
(* OOS <-edit---edit-> IS <-rst---put-> MT.                                *)
(***************************************************************************)
\* tributary (SCG) and line (OTS) ports
PortNames == {"1-A-1-T1", "1-A-2-T1", "1-A-1-L1", "1-A-2-L1"}

AdminStates == {"up", "down", "maintenance"}

\* optical_device.nms_uuid
NmsUuids == {None, Str("uuid-a")}

\* the test `"L" in port_name`
IsLinePort(port_name) == Contains(port_name, "L")

\* the admin states a port of the device can be in
DeviceStates(port_name) ==
    IF IsLinePort(port_name) THEN {"IS", "MT"} ELSE {"IS", "OOS", "MT"}

\* the device state an admin_state asks for
RequestedState(admin_state) ==
    CASE admin_state = "up" -> "IS"
      [] admin_state = "down" -> "OOS"
      [] admin_state = "maintenance" -> "MT"

\* the texts the device answers with
Completed(tag) == "M  " \o tag \o " COMPLD\n;"
Rejected(tag, text) == "M  " \o tag \o " DENY\n   SNVS\n   /* " \o text \o " */\n;"
Retrieved(tag, aid, state) ==
    "M  " \o tag \o " COMPLD\n   \"" \o aid \o ":PORT::" \o state \o "\"\n;"

\* the device: the state and the answer after it received wire in state.
\* An edit moves between OOS and IS and is denied in MT, a RMV moves IS to
\* MT and a RST moves MT to IS; an edit to the state the port is in is
\* accepted or answered with DENY and ALREADY, and a RMV or RST in any other
\* state is accepted without effect or denied.
DeviceOn(state, sections) ==
    LET verb == Split(sections[1], "-")[1]
        aid == sections[3]
        tag == sections[4]
        target == sections[Len(sections)]
        stays == {[state |-> state, response |-> Completed(tag)],
                  [state |-> state,
                   response |-> Rejected(tag, "Status, command not valid in this state")]}
    IN  CASE verb = "ED" ->
                IF target \notin {"IS", "OOS"}
                THEN {[state |-> state, response |-> Completed(tag)]}
                ELSE IF state = "MT"
                THEN {[state |-> state,
                       response |-> Rejected(tag, "Status, use RST command")]}
                ELSE IF state = target
                THEN {[state |-> state, response |-> Completed(tag)],
                      [state |-> state,
                       response |-> Rejected(tag, "Status, ALREADY in requested state")]}
                ELSE {[state |-> target, response |-> Completed(tag)]}
          [] verb = "RMV" ->
                IF state = "IS" THEN {[state |-> "MT", response |-> Completed(tag)]}
                ELSE stays
          [] verb = "RST" ->
                IF state = "MT" THEN {[state |-> "IS", response |-> Completed(tag)]}
                ELSE stays
          [] OTHER -> {[state |-> state, response |-> Retrieved(tag, aid, state)]}

\* the device splits the command it received into its sections
Device(state, wire) ==
    UNION {DeviceOn(state, sections)
           : sections \in {Split(SubSeq(wire, 1, Len(wire) - 1), ":")}}

\* flex.<name>(**kwargs) on the port's device: the serialized command, the
\* device's state after it, and what execute returns or raises
Exchanged(cls, attrs, wire) ==
    {[wire |-> wire, state |-> d.state,
      outcome |-> execute_result(port.nms_uuid.v, wire, d.response, attrs["ctag"].v,
                                 ResponseNamed(cls.response_class))]
     : d \in Device(port.state, wire)}

Exchange(name, kwargs) ==
    UNION {UNION {UNION {Exchanged(cls, attrs, wire)
                         : wire \in {ToStringOf(cls, attrs)}}
                  : attrs \in {BuildAttrs(cls, "flex.aa00", kwargs)}}
           : cls \in {ClassNamed(ImportedRegistry[name])}}

PortInit ==
    /\ base_loaded = FALSE
    /\ imported = {}
    /\ current = "none"
    /\ defined = 0
    /\ commands = <<>>
    /\ facades = {}
    /\ inflight = EmptyBag
    /\ last = NoCall
    /\ codec = Idle
    /\ search = Idle
    /\ poll = Idle
    /\ port \in {[pc |-> "begin", nms_uuid |-> u, port_name |-> n, admin_state |-> a,
                  initial |-> s, state |-> s, sent |-> <<>>, outcome |-> None]
                 : u \in NmsUuids, n \in PortNames, a \in AdminStates,
                   s \in {"IS", "OOS", "MT"}}
    /\ port.initial \in DeviceStates(port.port_name)

\* the function ends: it returns the envelope or raises the error
PortDone(outcome) == [port EXCEPT !.pc = "done", !.outcome = outcome]

\* one command was exchanged with the device
PortAfter(x, pc) ==
    IF x.outcome.kind = "error"
    THEN [port EXCEPT !.pc = "done", !.outcome = x.outcome, !.state = x.state,
                      !.sent = Append(port.sent, x.wire)]
    ELSE [port EXCEPT !.pc = pc, !.state = x.state, !.sent = Append(port.sent, x.wire)]

PortUnchanged ==
    UNCHANGED <<base_loaded, imported, current, defined, commands, facades,
                inflight, last, codec, search, poll>>

\* the nms_uuid check and the construction of the facade
CheckNmsUuid ==
    /\ port.pc = "begin"
    /\ port' = IF port.nms_uuid = None THEN PortDone(Error("ValueError"))
               ELSE [port EXCEPT !.pc = "dispatch"]
    /\ PortUnchanged

\* the branch for line ports (OTS)
LinePort ==
    /\ port.pc = "dispatch"
    /\ IsLinePort(port.port_name)
    /\ IF port.admin_state = "down"
       THEN port' = PortDone(Error("ValueError"))
       ELSE \E x \in Exchange(IF port.admin_state = "maintenance"
                              THEN "put_maintenance" ELSE "rst_maintenance",
                              ("aidtype" :> Str("OTS")) @@ ("aid" :> Str(port.port_name))) :
                port' = PortAfter(x, "retrieve")
    /\ PortUnchanged

\* tributary ports: flex.ed_scg(aid=port_name, is_oos="IS") and the except
\* clause around it
EditToInService_NoRestore ==
    /\ port.pc = "dispatch"
    /\ ~IsLinePort(port.port_name)
    /\ \E x \in Exchange("ed_scg", ("aid" :> Str(port.port_name)) @@ ("is_oos" :> Str("IS"))) :
           port' = PortAfter(x, "in_service")
    /\ PortUnchanged

EditToInService ==
    /\ port.pc = "dispatch"
    /\ ~IsLinePort(port.port_name)
    /\ \E x \in Exchange("ed_scg", ("aid" :> Str(port.port_name)) @@ ("is_oos" :> Str("IS"))) :
           port' = IF /\ x.outcome.kind = "error"
                      /\ x.outcome.error = "TL1CommandDeniedError"
                      /\ Contains(x.outcome.response, "use RST command")
                   THEN [port EXCEPT !.pc = "restore", !.state = x.state,
                                     !.sent = Append(port.sent, x.wire)]
                   ELSE PortAfter(x, "in_service")
    /\ PortUnchanged

\* flex.rst_maintenance(aidtype="SCG", aid=port_name) in the except clause
RestoreFromMaintenance ==
    /\ port.pc = "restore"
    /\ \E x \in Exchange("rst_maintenance",
                         ("aidtype" :> Str("SCG")) @@ ("aid" :> Str(port.port_name))) :
           port' = PortAfter(x, "in_service")
    /\ PortUnchanged

\* from the in-service state to the requested state
ToRequestedState ==
    /\ port.pc = "in_service"
    /\ CASE port.admin_state = "up" -> port' = [port EXCEPT !.pc = "retrieve"]
         [] port.admin_state = "down" ->
               \E x \in Exchange("ed_scg", ("aid" :> Str(port.port_name))
                                           @@ ("is_oos" :> Str("OOS"))) :
                   port' = PortAfter(x, "retrieve")
         [] port.admin_state = "maintenance" ->
               \E x \in Exchange("put_maintenance",
                                 ("aidtype" :> Str("SCG")) @@ ("aid" :> Str(port.port_name))) :
                   port' = PortAfter(x, "retrieve")
    /\ PortUnchanged

\* return flex.rtrv_ots(aid=port_name) / flex.rtrv_scg(aid=port_name)
Retrieve ==
    /\ port.pc = "retrieve"
    /\ \E x \in Exchange(IF IsLinePort(port.port_name) THEN "rtrv_ots" ELSE "rtrv_scg",
                         "aid" :> Str(port.port_name)) :
           port' = [port EXCEPT !.pc = "done", !.outcome = x.outcome, !.state = x.state,
                                !.sent = Append(port.sent, x.wire)]
    /\ PortUnchanged

PortNext ==
    \/ CheckNmsUuid
    \/ LinePort
    \/ EditToInService
    \/ RestoreFromMaintenance
    \/ ToRequestedState
    \/ Retrieve

PortSpec == PortInit /\ [][PortNext]_vars

\* C29: on a tributary port the function first brings the port to IS and
\* then to the requested state, whatever state the port was in, and returns
\* the retrieved port; on a line port a request for down raises an error
\* and no command is sent.
C29_PortReachesRequestedState ==
    /\ (port.pc = "in_service") => port.state = "IS"
    /\ (port.pc = "done" /\ port.nms_uuid # None /\ ~IsLinePort(port.port_name)) =>
          /\ port.outcome.kind = "envelope"
          /\ port.state = RequestedState(port.admin_state)
    /\ (/\ port.pc = "done"
        /\ port.nms_uuid # None
        /\ IsLinePort(port.port_name)
        /\ port.admin_state = "down") =>
          /\ port.outcome = Error("ValueError")
          /\ port.sent = <<>>
          /\ port.state = port.initial

\* C29 witness: a tributary port in MT was asked down and ended in OOS
\* after the denied edit, the RST, the edit to OOS and the retrieve
C29_Witness ==
    /\ port.pc = "done"
    /\ ~IsLinePort(port.port_name)
    /\ port.initial = "MT"
    /\ port.admin_state = "down"
    /\ port.state = "OOS"
    /\ Len(port.sent) = 4
    /\ port.outcome.kind = "envelope"

(***************************************************************************)
(* Job polling (services/infinera/core/endpoints.py): run_cli_script       *)
(* starts a job and get_cli_script_result polls it.                        *)
(***************************************************************************)
\* the largest max_retries of the model
MaxRetries == 4

\* the job statuses the server may return
JobStatuses == {"FINISHED", "RUNNING", "PENDING", "FAILED"}

\* raise ApiError(400, detail)
ApiError(detail) == [kind |-> "error", error |-> "ApiError", detail |-> detail]

\* return output
JobOutput(status) == [kind |-> "output", status |-> status]

PollInit ==
    /\ base_loaded = FALSE
    /\ imported = {}
    /\ current = "none"
    /\ defined = 0
    /\ commands = <<>>
    /\ facades = {}
    /\ inflight = EmptyBag
    /\ last = NoCall
    /\ codec = Idle
    /\ search = Idle
    /\ port = Idle
    /\ poll \in {[pc |-> "call", max_retries |-> m] : m \in 0..MaxRetries}

PollUnchanged ==
    UNCHANGED <<base_loaded, imported, current, defined, commands, facades,
                inflight, last, codec, search, port>>

\* run_cli_script: the job is started and get_cli_script_result entered
RunCliScript ==
    /\ poll.pc = "call"
    /\ poll' = [pc |-> "loop", max_retries |-> poll.max_retries, retries |-> 0,
                statuses |-> <<>>, outcome |-> None]
    /\ PollUnchanged

\* a loop that also waits on a failed job
Poll_RetryOnFailure(status) ==
    /\ poll.pc = "loop"
    /\ poll.retries < poll.max_retries
    /\ poll' =
         IF status = "FINISHED"
         THEN [poll EXCEPT !.pc = "done", !.statuses = Append(poll.statuses, status),
                           !.outcome = JobOutput(status)]
         ELSE [poll EXCEPT !.retries = poll.retries + 1,
                           !.statuses = Append(poll.statuses, status)]
    /\ PollUnchanged

\* one turn of the while loop: the request and the branch on its status
Poll(status) ==
    /\ poll.pc = "loop"
    /\ poll.retries < poll.max_retries
    /\ poll' =
         IF status = "FINISHED"
         THEN [poll EXCEPT !.pc = "done", !.statuses = Append(poll.statuses, status),
                           !.outcome = JobOutput(status)]
         ELSE IF status \in {"RUNNING", "PENDING"}
         THEN [poll EXCEPT !.retries = poll.retries + 1,
                           !.statuses = Append(poll.statuses, status)]
         ELSE [poll EXCEPT !.pc = "done", !.statuses = Append(poll.statuses, status),
                           !.outcome = ApiError("output")]
    /\ PollUnchanged

\* the loop condition fails: raise ApiError(400, "Job retrieval failed ...")
Exhausted ==
    /\ poll.pc = "loop"
    /\ ~(poll.retries < poll.max_retries)
    /\ poll' = [poll EXCEPT !.pc = "done", !.outcome = ApiError("Job retrieval failed")]
    /\ PollUnchanged

PollNext ==
    \/ RunCliScript
    \/ \E status \in JobStatuses : Poll(status)
    \/ Exhausted

PollSpec == PollInit /\ [][PollNext]_vars

\* the request returns and the sleep ends, so the function keeps running
\* until it returns or raises
PollFairSpec == PollSpec /\ WF_vars(PollNext)

\* the statuses polled before the last one were all RUNNING or PENDING
WaitedUntil(n) == \A k \in 1..n : poll.statuses[k] \in {"RUNNING", "PENDING"}

\* what get_cli_script_result has done so far agrees with the claim
PollOutcome ==
    poll.pc \in {"loop", "done"} =>
        LET polls == Len(poll.statuses)
        IN  /\ polls <= poll.max_retries
            /\ WaitedUntil(polls - 1)
            /\ (polls > 0 /\ poll.statuses[polls] = "FINISHED") =>
                  poll.pc = "done" /\ poll.outcome = JobOutput("FINISHED")
            /\ (polls > 0 /\ poll.statuses[polls] \notin {"FINISHED", "RUNNING", "PENDING"}) =>
                  poll.pc = "done" /\ poll.outcome = ApiError("output")
            /\ (poll.pc = "done" /\ WaitedUntil(polls)) =>
                  polls = poll.max_retries /\ poll.outcome = ApiError("Job retrieval failed")
            /\ poll.pc = "loop" => WaitedUntil(polls) /\ poll.outcome = None

\* C30: get_cli_script_result ends for every sequence of statuses: with the
\* output at the first FINISHED, with ApiError at the first status other
\* than FINISHED, RUNNING and PENDING, with ApiError after max_retries polls
\* that were all RUNNING or PENDING; it polls at most max_retries times.
C30_PollingTerminates == []PollOutcome /\ <>(poll.pc = "done")

\* C30 witness: three polls of a job that kept running used up max_retries
C30_Witness ==
    /\ poll.pc = "done"
    /\ poll.max_retries = 3
    /\ poll.statuses = <<"RUNNING", "PENDING", "RUNNING">>
    /\ poll.outcome = ApiError("Job retrieval failed")
====
